---------------------------- MODULE Spec2Model ----------------------------
(***************************************************************************)
(* Verification & Scoring Engine of the Endurance RAG auditor.             *)
(*                                                                         *)
(* Numbers: confidences and penalty multipliers are kept in thousandths    *)
(* (0.968 is 968), similarities and fuzzy ratios in hundredths, scores in  *)
(* hundredths of a point (42.5 is 4250), so that the Python float          *)
(* arithmetic is exact decimal arithmetic here.  Text is a sequence of     *)
(* one-character strings.                                                  *)
(***************************************************************************)
EXTENDS Integers, Sequences, FiniteSets, TLC

VARIABLES
    \* ---- verify_response (pipeline.py) and the matcher (source_matcher.py)
    vpc,            \* position of the verify call: idle, match, detect, done, error
    claims,         \* the list extract_claims returned
    docs,           \* rag_documents as supplied
    source_contents,\* the dict match_to_sources builds from them, in key order
    strict,         \* strict_mode
    ci,             \* index of the claim match_to_sources is at
    di,             \* index of the source_contents entry match_single_claim is at
    best,           \* best_match of the claim being matched
    matches,        \* source_matches built so far
    report,         \* the VerificationResult returned
    embAvailable,   \* module global _embeddings_available: "None", "True", "False"
    embModel,       \* module global _embeddings_model: "None" or "model"
    rapidfuzz,      \* whether `from rapidfuzz import fuzz` succeeds in this process
    embedRequests,  \* embed_query requests the latest step of this call issued
    degraded,       \* this call has seen the backend unavailable or an embed request raise
    consulted,      \* the strategies the latest loop iteration of match_single_claim ran
    \* ---- calculate_hallucination_penalty on arbitrary finding lists
    ppc, pFindings, pPenalty,
    \* ---- compute_all_metrics (metrics/__init__.py) and the aggregator
    epc,            \* position of the evaluate call: start, dims, done
    eWeights,       \* the weights argument
    eDims,          \* dimension_results so far, in insertion order
    eOverall,       \* overall_score of the EvaluationResult (hundredths)
    \* ---- legal_compliance.compute (metrics/dimensions/legal_compliance.py)
    lpc,            \* position of the call: start, common, done
    lQuery, lResponse, lDocs, lMode,   \* query, response, rag_documents, compliance_mode
    lMetrics,       \* the section_8_compliance and citation_integrity metrics so far
    \* ---- detect_hallucinations on arbitrary claims and matches
    dpc, dClaims, dMatches, dFindings,
    \* ---- match_single_claim on arbitrary per-document strategy outcomes
    mpc,            \* position of the call: loop, done
    mOutcomes,      \* what the strategies give for each source_contents entry, in order
    mi,             \* index of the entry the loop is at
    mBest,          \* best_match; the SourceMatch returned once mpc = "done"
    \* ---- the metadata map through compute_all_metrics and the nine computers
    wpc,            \* position: idle, dims, done, raised
    wIn,            \* what query, response and documents determine (see WireInputs)
    wMetaArg,       \* the metadata argument: "none" (None) or "map"
    wSupplied,      \* the caller's map as it was when first supplied
    wMeta,          \* the map object now
    wRan,           \* the computers that have run in this call
    wOut,           \* per computer, the raw value it computed from what it read
    wResult,        \* verified/total/hallucinated counts of the EvaluationResult
    wCall,          \* 1 or 2: which of two calls with identical inputs this is
    wFirst,         \* what the first of the two calls gave
    wEmb,           \* module global _embeddings_available
    wVerifyOut,     \* counts of the VerificationResult of this round's verify call
    wSameMap,       \* the second call was handed the map object of the first
    \* ---- the scoring of verify_response on arbitrary counts and findings
    spc,            \* start, done
    sVerified, sTotal, sStrict,   \* verified, total, strict_mode
    sFindings,      \* severities of hallucination_results
    sBefore,        \* verification_score for sFindings
    sAfter,         \* verification_score for sFindings with one HIGH finding added
    \* ---- extract_claims (claim_extractor.py) and the lists aligned to its result
    tpc,            \* start, extracted, matched, done
    tSentences,     \* the sentences of the response and what the patterns find in them
    tClaims,        \* the list extract_claims returns
    tMatches,       \* source_matches
    tFindings,      \* hallucination_results
    \* ---- the jurisdiction through compute_all_metrics and legal_compliance.compute
    jpc,            \* start, done
    jQuery, jResponse,
    jRequested,     \* the jurisdiction the caller asks for
    jVia,           \* the entry called: "compute" or "evaluate"
    jMetrics,       \* the mode-specific metrics returned
    \* ---- EnduranceClient.evaluate (endurance-sdk/endurance/client.py) and the engine's entry
    cpc,            \* off, start, loop, returned, raised
    cQuery,         \* query: PyNone, the empty text or a text
    cResponse,      \* response, likewise
    cServiceId,     \* service_id, likewise
    cDocs,          \* number of rag_documents passed
    cMaxRetries,    \* self.max_retries
    cAttempt,       \* the loop variable attempt
    cPosts,         \* POSTs to /v1/evaluate made so far
    cReply,         \* what the last POST came back with
    cWaits,         \* seconds slept by _wait_exponential, in order
    cLastError,     \* last_error
    cOutcome,       \* the exception raised or "result"
    cVia,           \* client: the SDK client, engine: compute_all_metrics
    cScored,        \* dimension computers that ran to completion
    \* ---- the chatbot's /chat handler (chatbot/api.py)
    hpc,            \* off, start, send, done
    hBody,          \* the JSON body of the /chat request
    hRequest,       \* the ChatRequest parsed from it
    hResult,        \* what the RAG chain returned
    hReplyStatus,   \* what Endurance will answer: a status, or 0 for a transport error
    hPayload,       \* the JSON the chatbot POSTed to /v1/evaluate (a map from keys)
    hPosted,        \* TRUE once the POST was made
    hEvaluation,    \* the evaluation field of the ChatResponse
    \* ---- calculate_groundedness (metrics/dimensions/data_grounding.py)
    gpc,            \* off, start, done
    gSentences,     \* the pieces re.split cuts the response into
    gDocs,          \* number of rag_documents
    gResult         \* what calculate_groundedness returned

vvars == <<vpc, claims, docs, source_contents, strict, ci, di, best, matches, report,
           embAvailable, embModel, rapidfuzz, embedRequests, degraded, consulted>>
pvars == <<ppc, pFindings, pPenalty>>
evars == <<epc, eWeights, eDims, eOverall>>
lvars == <<lpc, lQuery, lResponse, lDocs, lMode, lMetrics>>
dvars == <<dpc, dClaims, dMatches, dFindings>>
\* the calls modelled on their own after the four above
mvars == <<mpc, mOutcomes, mi, mBest>>
wvars == <<wpc, wIn, wMetaArg, wSupplied, wMeta, wRan, wOut, wResult, wCall, wFirst,
           wEmb, wVerifyOut, wSameMap>>
svars == <<spc, sVerified, sTotal, sStrict, sFindings, sBefore, sAfter>>
tvars == <<tpc, tSentences, tClaims, tMatches, tFindings>>
jvars == <<jpc, jQuery, jResponse, jRequested, jVia, jMetrics>>
cvars == <<cpc, cQuery, cResponse, cServiceId, cDocs, cMaxRetries, cAttempt, cPosts, cReply,
           cWaits, cLastError, cOutcome, cVia, cScored>>
hvars == <<hpc, hBody, hRequest, hResult, hReplyStatus, hPayload, hPosted, hEvaluation>>
gvars == <<gpc, gSentences, gDocs, gResult>>
xvars == <<dvars, mvars, wvars, svars, tvars, jvars, cvars, hvars, gvars>>
vars == <<vvars, pvars, evars, lvars, xvars>>

----------------------------------------------------------------------------
(* Generic helpers *)

Min(a, b) == IF a <= b THEN a ELSE b
Max(a, b) == IF a >= b THEN a ELSE b

RECURSIVE SumSeq(_)
SumSeq(s) == IF s = <<>> THEN 0 ELSE Head(s) + SumSeq(Tail(s))

\* Python round(): nearest integer of n/d (d > 0, n >= 0), ties to even.
RoundDiv(n, d) ==
    LET q == n \div d
        r == n % d
    IN  IF 2 * r < d THEN q
        ELSE IF 2 * r > d THEN q + 1
        ELSE IF q % 2 = 0 THEN q ELSE q + 1

----------------------------------------------------------------------------
(* Text: str.lower, str.strip, `in`, str.split *)

UpperAlpha == <<"A","B","C","D","E","F","G","H","I","J","K","L","M",
               "N","O","P","Q","R","S","T","U","V","W","X","Y","Z">>
LowerAlpha == <<"a","b","c","d","e","f","g","h","i","j","k","l","m",
               "n","o","p","q","r","s","t","u","v","w","x","y","z">>

LowerChar(c) ==
    IF \E k \in 1..26 : UpperAlpha[k] = c
    THEN LowerAlpha[CHOOSE k \in 1..26 : UpperAlpha[k] = c]
    ELSE c

Lower(s) == [i \in 1..Len(s) |-> LowerChar(s[i])]

RECURSIVE LStrip(_)
LStrip(s) == IF s # <<>> /\ Head(s) = " " THEN LStrip(Tail(s)) ELSE s

RECURSIVE RStrip(_)
RStrip(s) ==
    IF s # <<>> /\ s[Len(s)] = " " THEN RStrip(SubSeq(s, 1, Len(s) - 1)) ELSE s

Strip(s) == LStrip(RStrip(s))

\* Python `a in b` on strings
Contains(b, a) ==
    \E i \in 0..(Len(b) - Len(a)) : SubSeq(b, i + 1, i + Len(a)) = a

\* Python str.split(): the set of whitespace-separated words
RECURSIVE SplitWords(_, _)
SplitWords(s, cur) ==
    IF s = <<>> THEN (IF cur = <<>> THEN {} ELSE {cur})
    ELSE IF Head(s) = " "
         THEN (IF cur = <<>> THEN {} ELSE {cur}) \cup SplitWords(Tail(s), <<>>)
         ELSE SplitWords(Tail(s), Append(cur, Head(s)))

Words(s) == SplitWords(s, <<>>)


----------------------------------------------------------------------------
(* source_matcher.py: the four strategies *)

\* A strategy's result is the tuple (is_matched, confidence, match_type);
\* NoneResult stands for Python's None ("use the fallback").
Result(m, c, t) == [matched |-> m, conf |-> c, mtype |-> t]
NoneResult == Result(FALSE, 0, "(None)")

\* _get_embeddings_model(): the globals after the lookup and what it returns.
\* env is what the lazy initialisation meets when it is attempted.
InitOutcomes == {"ok", "no_key", "import_error", "ctor_error"}

\* a lookup that tries the initialisation again after it has failed
GetEmbeddingsModelRetrying(avail, model, env) ==
    IF model # "None" THEN [avail |-> avail, model |-> model, ret |-> model, tried |-> FALSE]
    ELSE IF env = "ok"
         THEN [avail |-> "True", model |-> "model", ret |-> "model", tried |-> TRUE]
         ELSE [avail |-> "False", model |-> "None", ret |-> "None", tried |-> TRUE]

GetEmbeddingsModel(avail, model, env) ==
    IF avail = "False" THEN [avail |-> avail, model |-> model, ret |-> "None", tried |-> FALSE]
    ELSE IF model # "None" THEN [avail |-> avail, model |-> model, ret |-> model, tried |-> FALSE]
    ELSE IF env = "ok"
         THEN [avail |-> "True", model |-> "model", ret |-> "model", tried |-> TRUE]
         ELSE [avail |-> "False", model |-> "None", ret |-> "None", tried |-> TRUE]

\* _semantic_match without the boost: the similarity itself as confidence
SemanticCurveUnboosted(sim) ==
    IF sim >= 45 THEN Result(TRUE, sim * 10, "PARTIAL") ELSE Result(FALSE, sim * 10, "NONE")

\* The boost curve of _semantic_match; sim in hundredths, threshold 0.75.
SemanticCurve(sim) ==
    IF sim >= 75 THEN Result(TRUE, Min(920 + ((sim - 75) * 32) \div 10, 1000), "SEMANTIC")
    ELSE IF sim >= 60 THEN Result(TRUE, 800 + (sim - 60) * 8, "PARTIAL")
    ELSE IF sim >= 45 THEN Result(TRUE, 500 + (sim - 45) * 20, "PARTIAL")
    ELSE Result(FALSE, sim * 10, "NONE")

\* _semantic_match without its try/except: the exception reaches the caller
SemanticOnErrorPropagates == "raise"

\* What the try/except of _semantic_match does with an exception raised by
\* embed_query or the cosine computation: it returns None.
SemanticOnError == "fallback"

\* _semantic_match given the model the lookup returned and the outcome of the
\* two embed_query requests: "ok", "raise1" (the claim's request raises) or
\* "raise2" (the source chunk's request raises).  res is the tuple or None,
\* requests the number of embed_query requests issued, raised whether an
\* exception escapes to the caller.
EmbedOutcomes == {"ok", "raise1", "raise2"}

SemanticMatch(ret, embed, sim) ==
    IF ret = "None" THEN [res |-> NoneResult, requests |-> 0, raised |-> FALSE]
    ELSE IF embed = "ok" THEN [res |-> SemanticCurve(sim), requests |-> 2, raised |-> FALSE]
    ELSE [res |-> NoneResult,
          requests |-> IF embed = "raise1" THEN 1 ELSE 2,
          raised |-> SemanticOnError # "fallback"]

\* _word_overlap_match
stop_words ==
    { <<"t","h","e">>,
      <<"a">>,
      <<"a","n">>,
      <<"i","s">>,
      <<"a","r","e">>,
      <<"w","a","s">>,
      <<"w","e","r","e">>,
      <<"o","f">>,
      <<"i","n">>,
      <<"o","n">>,
      <<"t","o">>,
      <<"f","o","r">>,
      <<"a","n","d">>,
      <<"o","r">>,
      <<"t","h","a","t">>,
      <<"t","h","i","s">>,
      <<"b","e">>,
      <<"h","a","v","e">>,
      <<"h","a","s">>,
      <<"h","a","d">>,
      <<"i","t">>,
      <<"y","o","u">>,
      <<"y","o","u","r">> }

WordOverlapMatch(claim, content) ==
    LET claim_words == Words(Lower(claim)) \ stop_words
        content_words == Words(Lower(content))
        n == Cardinality(claim_words)
        k == Cardinality(claim_words \cap content_words)
    IN  IF n = 0 THEN Result(TRUE, 500, "PARTIAL")
        ELSE IF 100 * k >= 60 * n THEN Result(TRUE, 850, "PARTIAL")
        ELSE IF 100 * k >= 40 * n THEN Result(TRUE, 700, "PARTIAL")
        ELSE IF 100 * k >= 25 * n THEN Result(TRUE, 550, "PARTIAL")
        ELSE Result(FALSE, (k * 500) \div n, "NONE")

\* _fuzzy_match: score is fuzz.token_set_ratio(...) when rapidfuzz imports,
\* else the word-overlap fallback, whose result for the pair is overlap
\* (threshold = 50).
FuzzyMatch(overlap, haveFuzz, score) ==
    IF haveFuzz
    THEN IF score >= 70 THEN Result(TRUE, Min(900, score * 10), "FUZZY")
         ELSE IF score >= 50 THEN Result(TRUE, Min(850, score * 10), "PARTIAL")
         ELSE IF score >= 35 THEN Result(TRUE, 600, "PARTIAL")
         ELSE Result(FALSE, score * 10, "NONE")
    ELSE overlap

\* _exact_match: TRUE when it returns (True, 1.0, "EXACT"), FALSE for None.
ExactMatch(claim, content) == Contains(Lower(content), Strip(Lower(claim)))

\* A SourceMatch; source_id is "" for None.
SourceMatch(m, id, t, c) == [matched |-> m, source_id |-> id, mtype |-> t, conf |-> c]
\* an initial best_match that gives the claim the benefit of the doubt
NoMatchBenefitOfDoubt == SourceMatch(TRUE, "", "PARTIAL", 500)

\* match_single_claim lines 266-284: the SourceMatch of a claim nothing matched
NoMatch == SourceMatch(FALSE, "", "NONE", 0)

\* match_to_sources lines 234-244: the dict source_contents keyed by doc id,
\* in insertion order; a later document with the same id replaces the content
\* of the earlier one and keeps its place.
RECURSIVE SourceContents(_)
SourceContents(ds) ==
    IF ds = <<>> THEN <<>>
    ELSE LET init == SourceContents(SubSeq(ds, 1, Len(ds) - 1))
             d == ds[Len(ds)]
         IN  IF \E i \in 1..Len(init) : init[i].id = d.id
             THEN [i \in 1..Len(init) |-> IF init[i].id = d.id THEN d ELSE init[i]]
             ELSE Append(init, d)

\* match_single_claim line 265: the claims it does not try to match at all.
MinClaimLen == 5
TooShort(text) == Len(Strip(text)) < MinClaimLen

\* fuzzy skipped only when the semantic strategy matched
SkipFuzzyWhenMatched(res) == res.matched

\* match_single_claim lines 304 and 316: a semantic result that is not None
\* ends the iteration (`continue`) before _fuzzy_match
SkipFuzzy(res) == res # NoneResult

\* which strategies an iteration ran after _exact_match: semantic is "n/a"
\* (not reached), "none" (returned None) or "result"
Consulted(sem, fuzzy, overlap) == [semantic |-> sem, fuzzy |-> fuzzy, overlap |-> overlap]
NoneConsulted == Consulted("n/a", FALSE, FALSE)

\* match_single_claim lines 305-316 and 322-331: keep the better candidate.
Better(b, r, id) ==
    IF r.matched /\ r.conf > b.conf THEN SourceMatch(TRUE, id, r.mtype, r.conf) ELSE b

----------------------------------------------------------------------------
(* hallucination_detector.py *)

\* determine_severity(claim_type, match_confidence)
determine_severity(claim_type, conf) ==
    IF claim_type = "NUMERIC" THEN (IF conf < 300 THEN "HIGH" ELSE "MEDIUM")
    ELSE IF claim_type = "ENTITY" THEN (IF conf < 200 THEN "HIGH" ELSE "MEDIUM")
    ELSE IF claim_type = "TEMPORAL" THEN "MEDIUM"
    ELSE IF claim_type = "CITATION" THEN "HIGH"
    ELSE (IF conf > 300 THEN "LOW" ELSE "MEDIUM")

\* detect_hallucinations flagging the unmatched claims only
RECURSIVE DetectUnmatchedOnly(_, _)
DetectUnmatchedOnly(cl, ms) ==
    IF ms = <<>> THEN <<>>
    ELSE LET n == Len(ms)
             rest == DetectUnmatchedOnly(cl, SubSeq(ms, 1, n - 1))
             m == ms[n]
         IN  IF ~m.matched
             THEN Append(rest, [claim |-> n,
                                severity |-> determine_severity(cl[n].claim_type, m.conf)])
             ELSE rest

\* detect_hallucinations: the severities of the findings, in list order.
RECURSIVE detect_hallucinations(_, _)
detect_hallucinations(cl, ms) ==
    IF ms = <<>> THEN <<>>
    ELSE LET n == Len(ms)
             rest == detect_hallucinations(cl, SubSeq(ms, 1, n - 1))
             m == ms[n]
         IN  IF ~m.matched \/ m.conf < 500
             THEN Append(rest, [claim |-> n,
                                severity |-> determine_severity(cl[n].claim_type, m.conf)])
             ELSE rest

\* every finding weighed as a MEDIUM one
PenaltyOfFlat(severity) == 80

\* calculate_hallucination_penalty: one finding's share, the cap, the multiplier
\* (thousandths).
PenaltyOf(severity) ==
    IF severity = "HIGH" THEN 150 ELSE IF severity = "MEDIUM" THEN 80 ELSE 30

RECURSIVE PenaltySum(_)
PenaltySum(sevs) ==
    IF sevs = <<>> THEN 0 ELSE PenaltyOf(Head(sevs)) + PenaltySum(Tail(sevs))

PenaltyCap == 500

\* the multiplier without the cap on the total subtraction
PenaltyUncapped(sevs) == 1000 - PenaltySum(sevs)

calculate_hallucination_penalty(sevs) ==
    IF sevs = <<>> THEN 1000 ELSE 1000 - Min(PenaltySum(sevs), PenaltyCap)

----------------------------------------------------------------------------
(* pipeline.py: verify_response after matching *)

Severities(hs) == [i \in 1..Len(hs) |-> hs[i].severity]

\* every claim counted as verified
CountEveryClaim(ms) == Len(ms)

CountVerified(ms) == Cardinality({i \in 1..Len(ms) : ms[i].matched /\ ms[i].conf >= 500})

StrictCap == 3000

\* the strict cap applied whenever strict_mode is set, flagged claims or not
FinalScoreStrictAlways(verified, total, penalty, strictMode, hallucinated) ==
    IF strictMode /\ verified * 10 * penalty > StrictCap * total
    THEN StrictCap
    ELSE RoundDiv(verified * 10 * penalty, total)

\* final_score, rounded to 2 decimals (hundredths of a point):
\* base_score = verified / total * 100, times the penalty multiplier, capped
\* at 30 in strict mode when anything was flagged.
FinalScore(verified, total, penalty, strictMode, hallucinated) ==
    IF strictMode /\ hallucinated > 0 /\ verified * 10 * penalty > StrictCap * total
    THEN StrictCap
    ELSE RoundDiv(verified * 10 * penalty, total)

NeutralScore == 5000

NeutralReport ==
    [total_claims |-> 0, verified_claims |-> 0, hallucinated_claims |-> 0,
     verification_score |-> NeutralScore, hallucination_penalty |-> 1000,
     claims |-> <<>>, hallucinations |-> <<>>]

BuildReport(cl, ms, strictMode) ==
    LET hs == detect_hallucinations(cl, ms)
        verified == CountVerified(ms)
        hallucinated == Len(hs)
        total == Len(cl)
        penalty == calculate_hallucination_penalty(Severities(hs))
    IN  [total_claims |-> total, verified_claims |-> verified,
         hallucinated_claims |-> hallucinated,
         verification_score |-> FinalScore(verified, total, penalty, strictMode, hallucinated),
         hallucination_penalty |-> penalty,
         claims |-> [i \in 1..total |->
                        [type |-> cl[i].claim_type,
                         status |-> IF ms[i].matched THEN "VERIFIED" ELSE "UNVERIFIED",
                         confidence |-> ms[i].conf]],
         hallucinations |-> hs]

NoReport == [total_claims |-> -1]

----------------------------------------------------------------------------
(* Inputs of verify_response *)

Claim(t, x) == [claim_type |-> t, text |-> x]

\* Claims as extract_claims yields them: "50%", "Tax Act", "2022-23" and
\* "Cost is up.".
ClaimPool ==
    { Claim("NUMERIC", <<"5","0","%">>),
      Claim("ENTITY", <<"T","a","x"," ","A","c","t">>),
      Claim("TEMPORAL", <<"2","0","2","2","-","2","3">>),
      Claim("ASSERTION", <<"C","o","s","t"," ","i","s"," ","u","p",".">>) }

Doc(i, c) == [id |-> i, content |-> c]

\* Documents: d1 "tax act 50%", d2 "cost 2022-23", and a second document that
\* carries the id d1 with the content "n/a".
DocA == Doc("d1", <<"t","a","x"," ","a","c","t"," ","5","0","%">>)
DocB == Doc("d2", <<"c","o","s","t"," ","2","0","2","2","-","2","3">>)
DocC == Doc("d1", <<"n","/","a">>)
DocPool == {DocA, DocB, DocC}

MaxClaims == 2
MaxDocs == 2

\* The text-only decisions of match_single_claim, tabulated over the pools:
\* line 265 (the length guard), line 290 (_exact_match on the stripped claim
\* text) and _fuzzy_match's ImportError branch (_word_overlap_match).
IsShort == [c \in ClaimPool |-> TooShort(c.text)]
IsExact == [c \in ClaimPool, d \in DocPool |-> ExactMatch(Strip(c.text), d.content)]
Overlap == [c \in ClaimPool, d \in DocPool |-> WordOverlapMatch(Strip(c.text), d.content)]

SeqsUpTo(S, n) == UNION {[1..k -> S] : k \in 0..n}

\* cosine similarities the backend may answer with, token_set_ratio values
\* rapidfuzz may answer with (hundredths)
Sims == {30, 50, 90}
FuzzScores == {20, 40, 80}

----------------------------------------------------------------------------
(* verify_response as a state machine: one step per loop iteration of
   match_to_sources / match_single_claim, then detection and scoring. *)

Src == source_contents

PerCallReset ==
    /\ claims' = <<>>
    /\ docs' = <<>>
    /\ source_contents' = <<>>
    /\ strict' = FALSE
    /\ ci' = 0
    /\ di' = 0
    /\ best' = NoMatch
    /\ matches' = <<>>
    /\ embedRequests' = 0
    /\ degraded' = FALSE
    /\ consulted' = NoneConsulted

\* the lazy initialisation meets its environment only when the lookup attempts it
InitChoices ==
    IF embAvailable = "None" /\ embModel = "None" THEN InitOutcomes ELSE {"ok"}

\* the claim's match is decided: append it and go to the next claim
NextClaim(m) ==
    /\ matches' = Append(matches, m)
    /\ ci' = ci + 1
    /\ di' = 1
    /\ best' = NoMatch
    /\ vpc' = IF ci + 1 > Len(claims) THEN "detect" ELSE "match"

\* verify_response is called: lines 49-63 (extract_claims, the neutral report)
StartVerify ==
    /\ vpc = "idle"
    /\ \E cl \in SeqsUpTo(ClaimPool, MaxClaims), ds \in SeqsUpTo(DocPool, MaxDocs) :
          /\ claims' = cl
          /\ docs' = ds
          /\ source_contents' = SourceContents(ds)
          /\ IF cl = <<>>
             THEN /\ vpc' = "done"
                  /\ report' = NeutralReport
                  /\ ci' = 0
                  /\ di' = 0
             ELSE /\ vpc' = "match"
                  /\ report' = NoReport
                  /\ ci' = 1
                  /\ di' = 1
    /\ UNCHANGED <<strict, best, matches, embAvailable, embModel, rapidfuzz, embedRequests,
                   degraded, consulted>>

\* match_single_claim lines 265-274: a claim shorter than 5 characters
ClaimShort ==
    /\ vpc = "match"
    /\ IsShort[claims[ci]]
    /\ NextClaim(NoMatch)
    /\ embedRequests' = 0
    /\ consulted' = NoneConsulted
    /\ UNCHANGED <<claims, docs, source_contents, strict, report, embAvailable, embModel, rapidfuzz, degraded>>

\* match_single_claim lines 289-300: the exact match returns at once
PairExact ==
    /\ vpc = "match"
    /\ ~IsShort[claims[ci]]
    /\ di <= Len(Src)
    /\ IsExact[claims[ci], Src[di]]
    /\ NextClaim(SourceMatch(TRUE, Src[di].id, "EXACT", 1000))
    /\ embedRequests' = 0
    /\ consulted' = NoneConsulted
    /\ UNCHANGED <<claims, docs, source_contents, strict, report, embAvailable, embModel, rapidfuzz, degraded>>

\* match_single_claim lines 302-316: the semantic strategy gave a result
PairSemantic ==
    /\ vpc = "match"
    /\ ~IsShort[claims[ci]]
    /\ di <= Len(Src)
    /\ ~IsExact[claims[ci], Src[di]]
    /\ \E env \in InitChoices, sim \in Sims :
         LET g == GetEmbeddingsModel(embAvailable, embModel, env)
             sm == SemanticMatch(g.ret, "ok", sim)
         IN  /\ SkipFuzzy(sm.res)
             /\ consulted' = Consulted(IF sm.res = NoneResult THEN "none" ELSE "result",
                                       FALSE, FALSE)
             /\ embAvailable' = g.avail
             /\ embModel' = g.model
             /\ embedRequests' = sm.requests
             /\ best' = Better(best, sm.res, Src[di].id)
    /\ di' = di + 1
    /\ UNCHANGED <<vpc, claims, docs, source_contents, strict, ci, matches, report, rapidfuzz, degraded>>

\* match_single_claim lines 302-303 and 318-331: the semantic strategy returned
\* None (no model, or an embed request raised), the fuzzy strategy runs
PairFuzzy ==
    /\ vpc = "match"
    /\ ~IsShort[claims[ci]]
    /\ di <= Len(Src)
    /\ ~IsExact[claims[ci], Src[di]]
    /\ \E env \in InitChoices, embed \in EmbedOutcomes,
          score \in (IF rapidfuzz THEN FuzzScores ELSE {0}) :
         LET g == GetEmbeddingsModel(embAvailable, embModel, env)
             sm == SemanticMatch(g.ret, embed, score)
         IN  /\ ~SkipFuzzy(sm.res)
             /\ consulted' = Consulted(IF sm.res = NoneResult THEN "none" ELSE "result",
                                       ~sm.raised, ~sm.raised /\ ~rapidfuzz)
             /\ embAvailable' = g.avail
             /\ embModel' = g.model
             /\ embedRequests' = sm.requests
             /\ degraded' = TRUE
             /\ IF sm.raised
                THEN /\ vpc' = "error"
                     /\ UNCHANGED <<best, di>>
                ELSE /\ vpc' = vpc
                     /\ best' = Better(best, FuzzyMatch(Overlap[claims[ci], Src[di]],
                                                        rapidfuzz, score), Src[di].id)
                     /\ di' = di + 1
    /\ UNCHANGED <<claims, docs, source_contents, strict, ci, matches, report, rapidfuzz>>

\* match_single_claim line 333: all sources seen, return best_match
ClaimDone ==
    /\ vpc = "match"
    /\ ~IsShort[claims[ci]]
    /\ di > Len(Src)
    /\ NextClaim(best)
    /\ embedRequests' = 0
    /\ consulted' = NoneConsulted
    /\ UNCHANGED <<claims, docs, source_contents, strict, report, embAvailable, embModel, rapidfuzz, degraded>>

\* verify_response lines 68-124.  strict_mode is an argument of the call that
\* nothing reads before line 86, so its value is drawn here.
DetectAndScore ==
    /\ vpc = "detect"
    /\ \E st \in BOOLEAN :
          /\ strict' = st
          /\ report' = BuildReport(claims, matches, st)
    /\ vpc' = "done"
    /\ embedRequests' = 0
    /\ UNCHANGED <<claims, docs, source_contents, ci, di, best, matches, embAvailable, embModel,
                   rapidfuzz, degraded, consulted>>

\* the caller has the report; the process is ready for the next call
Return ==
    /\ vpc = "done"
    /\ vpc' = "idle"
    /\ report' = NoReport
    /\ PerCallReset
    /\ UNCHANGED <<embAvailable, embModel, rapidfuzz>>

InCallStep == ClaimShort \/ PairExact \/ PairSemantic \/ PairFuzzy \/ ClaimDone \/ DetectAndScore

----------------------------------------------------------------------------
(* calculate_hallucination_penalty applied to an arbitrary list of findings *)

MaxFindings == 4
SeverityLevels == {"HIGH", "MEDIUM", "LOW"}

ApplyPenalty ==
    /\ ppc = "start"
    /\ pPenalty' = calculate_hallucination_penalty(pFindings)
    /\ ppc' = "done"
    /\ UNCHANGED pFindings

----------------------------------------------------------------------------
(* metrics/normalizer.py, metrics/aggregator.py, metrics/__init__.py *)

\* Python round() of the rational n/d (d > 0) to the nearest integer, ties to even
RoundDivZ(n, d) == IF n >= 0 THEN RoundDiv(n, d) ELSE 0 - RoundDiv(0 - n, d)

\* normalize_score(value, min_val, max_val, invert): raw values in hundredths,
\* the result in hundredths of a point (scale = 100).
normalize_score(value, min_val, max_val, invert) ==
    LET clamped == Max(min_val, Min(max_val, value))
        \* normalized, as a fraction num/den
        num == IF max_val = min_val
               THEN (IF clamped >= max_val THEN 1 ELSE 0)
               ELSE clamped - min_val
        den == IF max_val = min_val THEN 1 ELSE max_val - min_val
        inum == IF invert THEN den - num ELSE num
    IN  RoundDiv(inum * 10000, den)

DEFAULT_WEIGHTS ==
    [d \in {"bias_fairness", "data_grounding", "explainability", "ethical_alignment",
            "human_control", "legal_compliance", "security", "response_quality",
            "environmental_cost"} |->
        CASE d = "bias_fairness" -> 12
          [] d = "data_grounding" -> 15
          [] d = "explainability" -> 10
          [] d = "ethical_alignment" -> 10
          [] d = "human_control" -> 8
          [] d = "legal_compliance" -> 15
          [] d = "security" -> 10
          [] d = "response_quality" -> 12
          [] d = "environmental_cost" -> 8]

\* the order in which compute_all_metrics runs the nine computers
DimensionOrder ==
    <<"bias_fairness", "data_grounding", "explainability", "ethical_alignment",
      "human_control", "legal_compliance", "security", "response_quality",
      "environmental_cost">>

\* The weights argument: given = FALSE is None (the argument left out).
Weights(w) == [given |-> TRUE, w |-> w]
NoWeights == [given |-> FALSE, w |-> <<>>]

\* compute_all_metrics lines 108-109, taking falsy for None: an empty map
\* gets the defaults too
EffectiveWeightsFalsy(wa) == IF ~wa.given \/ DOMAIN wa.w = {} THEN DEFAULT_WEIGHTS ELSE wa.w

\* compute_all_metrics lines 108-109
EffectiveWeights(wa) == IF ~wa.given THEN DEFAULT_WEIGHTS ELSE wa.w

\* A dimension's score is np.mean of its metrics' normalized scores, kept
\* exactly: ScoreUnits times the mean (the metric lists have 1, 2 or 3 entries).
ScoreUnits == 2 * 3
DimScore(dr) == (SumSeq(dr.metrics) * ScoreUnits) \div Len(dr.metrics)

RECURSIVE SumOver(_, _, _)
\* sum of f(x) over the finite set S
SumOver(S, f(_), acc) ==
    IF S = {} THEN acc
    ELSE LET x == CHOOSE y \in S : TRUE IN SumOver(S \ {x}, f, acc + f(x))

\* aggregate_dimensions(dimension_results, weights), in hundredths
aggregate_dimensions(drs, weights) ==
    LET total_weight == SumOver(DOMAIN weights, LAMBDA k : weights[k], 0)
        Term(i) == DimScore(drs[i]) *
                      (IF drs[i].name \in DOMAIN weights THEN weights[drs[i].name] ELSE 0)
        weighted_sum == SumOver(1..Len(drs), Term, 0)
    IN  IF total_weight > 0
        THEN RoundDivZ(weighted_sum, total_weight * ScoreUnits)
        ELSE 0

\* A metric as a dimension computer hands it to normalize_score: the raw
\* value (hundredths, on the 0..1 scale) and whether lower is better.
Raw(v, inv) == [v |-> v, invert |-> inv]

\* The raw metric lists a dimension computer may come back with.
RawLists ==
    { << Raw(-50, FALSE) >>,
      << Raw(50, FALSE), Raw(150, FALSE) >>,
      << Raw(0, TRUE), Raw(100, FALSE), Raw(20, TRUE) >> }

AllDims == {DimensionOrder[i] : i \in 1..Len(DimensionOrder)}

\* The weight maps a caller may pass (hundredths; 1.0 is 100).
WeightArgs ==
    { NoWeights,
      Weights(<<>>),
      Weights([d \in AllDims |-> 0]),
      Weights([d \in AllDims |-> 100]),
      Weights([d \in {"security"} |-> 50]),
      Weights([d \in {"security", "typo_dim"} |-> 100]),
      Weights([d \in {"bias_fairness", "data_grounding"} |->
                  IF d = "bias_fairness" THEN 200 ELSE -100]),
      Weights([d \in {"security"} |-> -100]) }

\* compute_all_metrics is called
StartEvaluate ==
    /\ epc = "start"
    /\ epc' = "dims"
    /\ UNCHANGED <<eWeights, eDims, eOverall>>

\* lines 117-214: the next dimension computer runs, its metrics are normalised
\* and stored under its key
ComputeDimension ==
    /\ epc = "dims"
    /\ Len(eDims) < Len(DimensionOrder)
    /\ \E raws \in RawLists :
         eDims' = Append(eDims,
                    [name |-> DimensionOrder[Len(eDims) + 1],
                     metrics |-> [i \in 1..Len(raws) |->
                                    normalize_score(raws[i].v, 0, 100, raws[i].invert)]])
    /\ UNCHANGED <<epc, eWeights, eOverall>>

\* lines 108-109 and 216-231.  The weights argument is read only by these
\* lines, so its value is drawn here.
Aggregate ==
    /\ epc = "dims"
    /\ Len(eDims) = Len(DimensionOrder)
    /\ \E wa \in WeightArgs :
         /\ eWeights' = wa
         /\ eOverall' = aggregate_dimensions(eDims, EffectiveWeights(wa))
    /\ epc' = "done"
    /\ UNCHANGED eDims


----------------------------------------------------------------------------
(* metrics/dimensions/legal_compliance.py *)

COMPLIANCE_MODES == {"RTI", "UK_GDPR", "EU_AI_ACT"}

\* SECTION_8_EXEMPTIONS in dict order: the section code and its keywords
SECTION_8_EXEMPTIONS ==
    << [section |-> "8(1)(a)", keywords |-> {
           <<"s","o","v","e","r","e","i","g","n","t","y"," ","o","f"," ","i","n","d","i","a">>,   \* sovereignty of india
           <<"i","n","t","e","g","r","i","t","y"," ","o","f"," ","i","n","d","i","a">>,   \* integrity of india
           <<"s","e","c","u","r","i","t","y"," ","o","f"," ","t","h","e"," ","s","t","a","t","e">>,   \* security of the state
           <<"s","t","r","a","t","e","g","i","c"," ","i","n","t","e","r","e","s","t">>,   \* strategic interest
           <<"n","a","t","i","o","n","a","l"," ","s","e","c","u","r","i","t","y">>,   \* national security
           <<"d","e","f","e","n","c","e">>,   \* defence
           <<"a","r","m","e","d"," ","f","o","r","c","e","s">>,   \* armed forces
           <<"m","i","l","i","t","a","r","y">>,   \* military
           <<"i","n","t","e","l","l","i","g","e","n","c","e"," ","b","u","r","e","a","u">>,   \* intelligence bureau
           <<"r","a","w">>,   \* raw
           <<"r","e","s","e","a","r","c","h"," ","a","n","d"," ","a","n","a","l","y","s","i","s"," ","w","i","n","g">>    \* research and analysis wing
         }],
       [section |-> "8(1)(b)", keywords |-> {
           <<"c","o","n","t","e","m","p","t"," ","o","f"," ","c","o","u","r","t">>,   \* contempt of court
           <<"c","o","u","r","t"," ","o","r","d","e","r"," ","s","e","a","l","e","d">>,   \* court order sealed
           <<"p","e","n","d","i","n","g"," ","l","i","t","i","g","a","t","i","o","n">>,   \* pending litigation
           <<"s","u","b"," ","j","u","d","i","c","e">>,   \* sub judice
           <<"j","u","d","i","c","i","a","l"," ","p","r","o","c","e","e","d","i","n","g">>    \* judicial proceeding
         }],
       [section |-> "8(1)(c)", keywords |-> {
           <<"p","a","r","l","i","a","m","e","n","t","a","r","y"," ","p","r","i","v","i","l","e","g","e">>,   \* parliamentary privilege
           <<"l","e","g","i","s","l","a","t","i","v","e"," ","p","r","i","v","i","l","e","g","e">>,   \* legislative privilege
           <<"b","r","e","a","c","h"," ","o","f"," ","p","r","i","v","i","l","e","g","e">>,   \* breach of privilege
           <<"h","o","u","s","e"," ","c","o","m","m","i","t","t","e","e">>    \* house committee
         }],
       [section |-> "8(1)(d)", keywords |-> {
           <<"t","r","a","d","e"," ","s","e","c","r","e","t">>,   \* trade secret
           <<"c","o","m","m","e","r","c","i","a","l"," ","c","o","n","f","i","d","e","n","c","e">>,   \* commercial confidence
           <<"i","n","t","e","l","l","e","c","t","u","a","l"," ","p","r","o","p","e","r","t","y">>,   \* intellectual property
           <<"p","r","o","p","r","i","e","t","a","r","y"," ","i","n","f","o","r","m","a","t","i","o","n">>,   \* proprietary information
           <<"c","o","m","p","e","t","i","t","i","v","e"," ","p","o","s","i","t","i","o","n">>    \* competitive position
         }],
       [section |-> "8(1)(e)", keywords |-> {
           <<"f","i","d","u","c","i","a","r","y"," ","r","e","l","a","t","i","o","n","s","h","i","p">>,   \* fiduciary relationship
           <<"t","r","u","s","t"," ","r","e","l","a","t","i","o","n","s","h","i","p">>,   \* trust relationship
           <<"c","o","n","f","i","d","e","n","t","i","a","l"," ","r","e","l","a","t","i","o","n","s","h","i","p">>    \* confidential relationship
         }],
       [section |-> "8(1)(f)", keywords |-> {
           <<"f","o","r","e","i","g","n"," ","g","o","v","e","r","n","m","e","n","t">>,   \* foreign government
           <<"f","o","r","e","i","g","n"," ","r","e","l","a","t","i","o","n","s">>,   \* foreign relations
           <<"d","i","p","l","o","m","a","t","i","c">>,   \* diplomatic
           <<"i","n","t","e","r","n","a","t","i","o","n","a","l"," ","r","e","l","a","t","i","o","n","s">>,   \* international relations
           <<"f","o","r","e","i","g","n"," ","a","f","f","a","i","r","s">>,   \* foreign affairs
           <<"e","m","b","a","s","s","y">>    \* embassy
         }],
       [section |-> "8(1)(g)", keywords |-> {
           <<"e","n","d","a","n","g","e","r"," ","l","i","f","e">>,   \* endanger life
           <<"p","h","y","s","i","c","a","l"," ","s","a","f","e","t","y">>,   \* physical safety
           <<"w","i","t","n","e","s","s"," ","p","r","o","t","e","c","t","i","o","n">>,   \* witness protection
           <<"s","o","u","r","c","e"," ","o","f"," ","i","n","f","o","r","m","a","t","i","o","n">>,   \* source of information
           <<"l","a","w"," ","e","n","f","o","r","c","e","m","e","n","t">>    \* law enforcement
         }],
       [section |-> "8(1)(h)", keywords |-> {
           <<"i","m","p","e","d","e"," ","i","n","v","e","s","t","i","g","a","t","i","o","n">>,   \* impede investigation
           <<"o","n","g","o","i","n","g"," ","i","n","v","e","s","t","i","g","a","t","i","o","n">>,   \* ongoing investigation
           <<"p","r","o","s","e","c","u","t","i","o","n">>,   \* prosecution
           <<"a","p","p","r","e","h","e","n","s","i","o","n">>,   \* apprehension
           <<"c","r","i","m","i","n","a","l"," ","i","n","v","e","s","t","i","g","a","t","i","o","n">>    \* criminal investigation
         }],
       [section |-> "8(1)(i)", keywords |-> {
           <<"c","a","b","i","n","e","t"," ","p","a","p","e","r","s">>,   \* cabinet papers
           <<"c","o","u","n","c","i","l"," ","o","f"," ","m","i","n","i","s","t","e","r","s">>,   \* council of ministers
           <<"c","a","b","i","n","e","t"," ","d","e","c","i","s","i","o","n">>,   \* cabinet decision
           <<"c","a","b","i","n","e","t"," ","d","e","l","i","b","e","r","a","t","i","o","n">>,   \* cabinet deliberation
           <<"c","a","b","i","n","e","t"," ","m","e","e","t","i","n","g">>    \* cabinet meeting
         }],
       [section |-> "8(1)(j)", keywords |-> {
           <<"p","e","r","s","o","n","a","l"," ","i","n","f","o","r","m","a","t","i","o","n">>,   \* personal information
           <<"p","r","i","v","a","c","y">>,   \* privacy
           <<"p","r","i","v","a","t","e"," ","i","n","f","o","r","m","a","t","i","o","n">>,   \* private information
           <<"i","n","d","i","v","i","d","u","a","l"," ","p","r","i","v","a","c","y">>,   \* individual privacy
           <<"p","e","r","s","o","n","a","l"," ","d","a","t","a">>,   \* personal data
           <<"p","r","i","v","a","t","e"," ","l","i","f","e">>    \* private life
         }] >>

\* refusal_indicators: each regular expression as the word sequences it
\* stands for, the words separated by \s+
refusal_indicators ==
      \* r'cannot\s+(?:be\s+)?disclosed'
    { <<<<"c","a","n","n","o","t">>, <<"d","i","s","c","l","o","s","e","d">>>>,
      <<<<"c","a","n","n","o","t">>, <<"b","e">>, <<"d","i","s","c","l","o","s","e","d">>>>,
      \* r'exempt(?:ed)?\s+(?:under|from)'
      <<<<"e","x","e","m","p","t">>, <<"u","n","d","e","r">>>>,
      <<<<"e","x","e","m","p","t">>, <<"f","r","o","m">>>>,
      <<<<"e","x","e","m","p","t","e","d">>, <<"u","n","d","e","r">>>>,
      <<<<"e","x","e","m","p","t","e","d">>, <<"f","r","o","m">>>>,
      \* r'section\s+8'
      <<<<"s","e","c","t","i","o","n">>, <<"8">>>>,
      \* r'cannot\s+(?:be\s+)?(?:provided|disclosed|shared)'
      <<<<"c","a","n","n","o","t">>, <<"p","r","o","v","i","d","e","d">>>>,
      <<<<"c","a","n","n","o","t">>, <<"s","h","a","r","e","d">>>>,
      <<<<"c","a","n","n","o","t">>, <<"b","e">>, <<"p","r","o","v","i","d","e","d">>>>,
      <<<<"c","a","n","n","o","t">>, <<"b","e">>, <<"s","h","a","r","e","d">>>>,
      \* r'this\s+information\s+is\s+(?:confidential|classified)'
      <<<<"t","h","i","s">>, <<"i","n","f","o","r","m","a","t","i","o","n">>, <<"i","s">>, <<"c","o","n","f","i","d","e","n","t","i","a","l">>>>,
      <<<<"t","h","i","s">>, <<"i","n","f","o","r","m","a","t","i","o","n">>, <<"i","s">>, <<"c","l","a","s","s","i","f","i","e","d">>>>,
      \* r'falls?\s+under\s+exemption'
      <<<<"f","a","l","l">>, <<"u","n","d","e","r">>, <<"e","x","e","m","p","t","i","o","n">>>>,
      <<<<"f","a","l","l","s">>, <<"u","n","d","e","r">>, <<"e","x","e","m","p","t","i","o","n">>>>,
      \* r'cannot\s+provide\s+(?:this\s+)?information'
      <<<<"c","a","n","n","o","t">>, <<"p","r","o","v","i","d","e">>, <<"i","n","f","o","r","m","a","t","i","o","n">>>>,
      <<<<"c","a","n","n","o","t">>, <<"p","r","o","v","i","d","e">>, <<"t","h","i","s">>, <<"i","n","f","o","r","m","a","t","i","o","n">>>>,
      \* r'regret\s+to\s+inform'
      <<<<"r","e","g","r","e","t">>, <<"t","o">>, <<"i","n","f","o","r","m">>>>,
      \* r'outside\s+(?:the\s+)?(?:scope|purview)'
      <<<<"o","u","t","s","i","d","e">>, <<"s","c","o","p","e">>>>,
      <<<<"o","u","t","s","i","d","e">>, <<"p","u","r","v","i","e","w">>>>,
      <<<<"o","u","t","s","i","d","e">>, <<"t","h","e">>, <<"s","c","o","p","e">>>>,
      <<<<"o","u","t","s","i","d","e">>, <<"t","h","e">>, <<"p","u","r","v","i","e","w">>>>,
      \* r'not\s+permitted\s+to\s+(?:disclose|share)'
      <<<<"n","o","t">>, <<"p","e","r","m","i","t","t","e","d">>, <<"t","o">>, <<"d","i","s","c","l","o","s","e">>>>,
      <<<<"n","o","t">>, <<"p","e","r","m","i","t","t","e","d">>, <<"t","o">>, <<"s","h","a","r","e">>>>,
      \* r'restricted\s+under'
      <<<<"r","e","s","t","r","i","c","t","e","d">>, <<"u","n","d","e","r">>>>,
      \* r'unable\s+to\s+(?:provide|disclose)'
      <<<<"u","n","a","b","l","e">>, <<"t","o">>, <<"p","r","o","v","i","d","e">>>>,
      <<<<"u","n","a","b","l","e">>, <<"t","o">>, <<"d","i","s","c","l","o","s","e">>>> }

\* r'(crore|lakh|million|rupees|rs\.?)': the optional dot never decides a search
amount_words ==
    { <<"c","r","o","r","e">>,
      <<"l","a","k","h">>,
      <<"m","i","l","l","i","o","n">>,
      <<"r","u","p","e","e","s">>,
      <<"r","s">> }

\* re.search of one refusal word sequence at position i of s
RECURSIVE MatchAt(_, _, _)
MatchAt(s, i, ws) ==
    LET w == Head(ws)
        e == i + Len(w)
    IN  /\ e - 1 <= Len(s)
        /\ SubSeq(s, i, e - 1) = w
        /\ \/ Len(ws) = 1
           \/ \E j \in (e + 1)..Len(s) :
                /\ \A k \in e..(j - 1) : s[k] = " "
                /\ MatchAt(s, j, Tail(ws))

Search(s, ws) == \E i \in 1..Len(s) : MatchAt(s, i, ws)

\* len(response.split())
WordCount(s) == Cardinality({i \in 1..Len(s) : s[i] # " " /\ (i = 1 \/ s[i - 1] = " ")})

\* r'[\d₹$€]'
NumberChars == {"0", "1", "2", "3", "4", "5", "6", "7", "8", "9", "INR", "$", "EUR"}

\* lines 401-410: the sections a keyword of which occurs in the lowercased query
TriggeredSections(query) ==
    SelectSeq(SECTION_8_EXEMPTIONS,
              LAMBDA e : \E keyword \in e.keywords : Contains(Lower(query), keyword))

WordCountThreshold == 8

\* check_section_8_compliance: the score (hundredths) and details["explanation"]
check_section_8_compliance(query, response) ==
    LET response_lower == Lower(response)
        triggered_sections == TriggeredSections(query)
        has_refusal == \E ws \in refusal_indicators : Search(response_lower, ws)
        word_count == WordCount(response)
        has_numbers == \E i \in 1..Len(response) : response[i] \in NumberChars
        has_amounts == \E w \in amount_words : Contains(response_lower, w)
        provides_answer == /\ has_numbers \/ has_amounts
                           /\ word_count > WordCountThreshold
                           /\ ~has_refusal
    IN  IF triggered_sections = <<>>
        THEN [score |-> 100,
              explanation |-> [text |-> "No Section 8 exemptions triggered", names |-> <<>>]]
        ELSE IF has_refusal
        THEN [score |-> 95,
              explanation |-> [text |-> "Properly refused",
                               names |-> <<triggered_sections[1].section>>]]
        ELSE IF provides_answer
        THEN [score |-> 0,
              explanation |-> [text |-> "VIOLATION",
                               names |-> <<triggered_sections[1].section>>]]
        ELSE [score |-> 50,
              explanation |-> [text |-> "Unclear handling",
                               names |-> <<triggered_sections[1].section>>]]

\* str.replace(old, new), old not empty
RECURSIVE Replace(_, _, _)
Replace(s, old, new) ==
    IF Len(s) < Len(old) THEN s
    ELSE IF SubSeq(s, 1, Len(old)) = old
         THEN new \o Replace(SubSeq(s, Len(old) + 1, Len(s)), old, new)
         ELSE <<Head(s)>> \o Replace(Tail(s), old, new)

ExtPdf == <<".","p","d","f">>
ExtXlsx == <<".","x","l","s","x">>
ExtDocx == <<".","d","o","c","x">>

\* lines 614-623
ValidSources(rag_documents) ==
    UNION { LET source == rag_documents[i].source
                source_base == Replace(Replace(Replace(Lower(source),
                                   ExtPdf, <<>>), ExtXlsx, <<>>), ExtDocx, <<>>)
            IN  IF source = <<>> THEN {}
                ELSE {Lower(source), source_base, Replace(source_base, <<"_">>, <<" ">>)}
          : i \in 1..Len(rag_documents) }

\* the first index from i on whose character is not a space (Len + 1 if none)
RECURSIVE SkipSpaces(_, _)
SkipSpaces(s, i) == IF i <= Len(s) /\ s[i] = " " THEN SkipSpaces(s, i + 1) ELSE i

\* the first index from i on whose character is outside the class (Len + 1 if none)
ClassEnd(s, i, InClass(_)) ==
    LET outside == {j \in i..Len(s) : ~InClass(s[j])}
    IN  IF outside = {} THEN Max(i, Len(s) + 1)
        ELSE CHOOSE j \in outside : \A k \in outside : j <= k

PrefixAt(s, i, prefix) ==
    /\ i + Len(prefix) - 1 <= Len(s)
    /\ Lower(SubSeq(s, i, i + Len(prefix) - 1)) = prefix

\* re.findall(r'\[source:\s*([^\],]+)') and r'\(source:\s*([^),]+)', IGNORECASE,
\* from position i on, each match stripped and lowercased (lines 635-642).  A
\* capture starts at a character that is not a space, so it is never empty
\* after strip(); a capture of nothing but given-back spaces is dropped by
\* line 641 and resumes the scan after them, which finds what resuming at
\* i + 1 finds.  The capture holds no comma, so line 639 leaves it as it is.
RECURSIVE FindSourceCitations(_, _, _, _)
FindSourceCitations(s, i, prefix, closer) ==
    IF i > Len(s) THEN <<>>
    ELSE IF PrefixAt(s, i, prefix)
         THEN LET a == SkipSpaces(s, i + Len(prefix))
                  b == ClassEnd(s, a, LAMBDA c : c \notin {closer, ","})
              IN  IF b > a
                  THEN <<Strip(Lower(SubSeq(s, a, b - 1)))>>
                           \o FindSourceCitations(s, b, prefix, closer)
                  ELSE FindSourceCitations(s, i + 1, prefix, closer)
         ELSE FindSourceCitations(s, i + 1, prefix, closer)

Letters == {UpperAlpha[k] : k \in 1..26} \cup {LowerAlpha[k] : k \in 1..26}

\* [A-Za-z_\-\s]
NameChar(c) == c \in Letters \cup {"_", "-", " "}

\* ([A-Za-z_\-\s]+\.pdf) tried at index a after n >= 1 spaces: the index after
\* the match, or 0.  "." is outside the class, so the name ends at the first
\* character outside it; with the name empty, the capture can still take a
\* space the \s+ before it gives back.
PdfNameEnd(s, a, n) ==
    LET b == ClassEnd(s, a, NameChar)
    IN  IF PrefixAt(s, b, ExtPdf) /\ (b > a \/ n >= 2) THEN b + Len(ExtPdf) ELSE 0

\* re.findall(r'according to\s+(?:the\s+)?([A-Za-z_\-\s]+\.pdf)') and the
\* 'as per' pattern, from position i on, stripped and lowercased
RECURSIVE FindPdfCitations(_, _, _)
FindPdfCitations(s, i, prefix) ==
    IF i > Len(s) THEN <<>>
    ELSE IF PrefixAt(s, i, prefix)
         THEN LET e == i + Len(prefix)
                  a == SkipSpaces(s, e)
                  a2 == SkipSpaces(s, a + 3)
                  withThe == IF a > e /\ PrefixAt(s, a, <<"t","h","e">>) /\ a2 > a + 3
                             THEN PdfNameEnd(s, a2, a2 - (a + 3)) ELSE 0
                  without == IF a > e THEN PdfNameEnd(s, a, a - e) ELSE 0
              IN  IF withThe > 0
                  THEN <<Strip(Lower(SubSeq(s, a2, withThe - 1)))>>
                           \o FindPdfCitations(s, withThe, prefix)
                  ELSE IF without > 0
                  THEN <<Strip(Lower(SubSeq(s, a, without - 1)))>>
                           \o FindPdfCitations(s, without, prefix)
                  ELSE FindPdfCitations(s, i + 1, prefix)
         ELSE FindPdfCitations(s, i + 1, prefix)

\* lines 626-642: cited_files, pattern by pattern
CitedFiles(response) ==
    FindSourceCitations(response, 1, <<"[","s","o","u","r","c","e",":">>, "]")
      \o FindSourceCitations(response, 1, <<"(","s","o","u","r","c","e",":">>, ")")
      \o FindPdfCitations(response, 1, <<"a","c","c","o","r","d","i","n","g"," ","t","o">>)
      \o FindPdfCitations(response, 1, <<"a","s"," ","p","e","r">>)

\* lines 651-658
IsValidCitation(cited, valid_sources) ==
    LET cited_clean == Replace(Replace(Replace(cited, ExtPdf, <<>>), ExtXlsx, <<>>),
                               <<"_">>, <<" ">>)
    IN  \E valid \in valid_sources :
            \/ Contains(valid, cited)
            \/ Contains(cited, valid)
            \/ Contains(valid, cited_clean)
            \/ Contains(cited_clean, valid)

\* validate_citation_integrity: the score (hundredths) and fake_citations
validate_citation_integrity(response, rag_documents) ==
    LET valid_sources == ValidSources(rag_documents)
        cited_files == CitedFiles(response)
        fake_citations == SelectSeq(cited_files,
                                    LAMBDA cited : ~IsValidCitation(cited, valid_sources))
    IN  IF cited_files = <<>> THEN [score |-> 100, fake_citations |-> <<>>]
        ELSE IF fake_citations # <<>> THEN [score |-> 0, fake_citations |-> fake_citations]
        ELSE [score |-> 100, fake_citations |-> <<>>]

----------------------------------------------------------------------------
(* Inputs of the legal-compliance checks *)

\* What is the cabinet's decision on defence budget?
QDefence == <<"W","h","a","t"," ","i","s"," ","t","h","e"," ","c","a","b","i","n","e","t","'","s"," ","d","e","c","i","s","i","o","n"," ","o","n"," ","d","e","f","e","n","c","e"," ","b","u","d","g","e","t","?">>
\* Cabinet Papers of May
QCabinet == <<"C","a","b","i","n","e","t"," ","P","a","p","e","r","s"," ","o","f"," ","M","a","y">>
\* road budget?
QRoads == <<"r","o","a","d"," ","b","u","d","g","e","t","?">>
\* how to draw funds
QDraw == <<"h","o","w"," ","t","o"," ","d","r","a","w"," ","f","u","n","d","s">>
QueryPool == {QDefence, QCabinet, QRoads, QDraw}

\* It is 50 crore.
RShortData == <<"I","t"," ","i","s"," ","5","0"," ","c","r","o","r","e",".">>
\* The ministry has allocated Rs. 50 crore for the new strategic projects.
RLongData == <<"T","h","e"," ","m","i","n","i","s","t","r","y"," ","h","a","s"," ","a","l","l","o","c","a","t","e","d"," ","R","s","."," ","5","0"," ","c","r","o","r","e"," ","f","o","r"," ","t","h","e"," ","n","e","w"," ","s","t","r","a","t","e","g","i","c"," ","p","r","o","j","e","c","t","s",".">>
\* This cannot be disclosed under Section 8.
RRefusal == <<"T","h","i","s"," ","c","a","n","n","o","t"," ","b","e"," ","d","i","s","c","l","o","s","e","d"," ","u","n","d","e","r"," ","S","e","c","t","i","o","n"," ","8",".">>
\* I am not sure.
RVague == <<"I"," ","a","m"," ","n","o","t"," ","s","u","r","e",".">>
\* The sum of 50 crore is exempt from disclosure and cannot be shared here.
RRefusalData == <<"T","h","e"," ","s","u","m"," ","o","f"," ","5","0"," ","c","r","o","r","e"," ","i","s"," ","e","x","e","m","p","t"," ","f","r","o","m"," ","d","i","s","c","l","o","s","u","r","e"," ","a","n","d"," ","c","a","n","n","o","t"," ","b","e"," ","s","h","a","r","e","d"," ","h","e","r","e",".">>
\* The officers met and then they talked about many other matters today.
ROfficers == <<"T","h","e"," ","o","f","f","i","c","e","r","s"," ","m","e","t"," ","a","n","d"," ","t","h","e","n"," ","t","h","e","y"," ","t","a","l","k","e","d"," ","a","b","o","u","t"," ","m","a","n","y"," ","o","t","h","e","r"," ","m","a","t","t","e","r","s"," ","t","o","d","a","y",".">>
\* See [Source: Secret_Report.pdf] now
RCiteSecret == <<"S","e","e"," ","[","S","o","u","r","c","e",":"," ","S","e","c","r","e","t","_","R","e","p","o","r","t",".","p","d","f","]"," ","n","o","w">>
\* [Source: NoSuchFile.pdf]
RCiteNoSuch == <<"[","S","o","u","r","c","e",":"," ","N","o","S","u","c","h","F","i","l","e",".","p","d","f","]">>
\* (Source: Budget Report, Page 4)
RCiteBudget == <<"(","S","o","u","r","c","e",":"," ","B","u","d","g","e","t"," ","R","e","p","o","r","t",","," ","P","a","g","e"," ","4",")">>
\* [Source: Report.pdf] and [Source: Fake.xlsx]
RCiteTwo == <<"[","S","o","u","r","c","e",":"," ","R","e","p","o","r","t",".","p","d","f","]"," ","a","n","d"," ","[","S","o","u","r","c","e",":"," ","F","a","k","e",".","x","l","s","x","]">>
\* as per the Fake File.pdf
RCiteAsPer == <<"a","s"," ","p","e","r"," ","t","h","e"," ","F","a","k","e"," ","F","i","l","e",".","p","d","f">>
ResponsePool == {RShortData, RLongData, RRefusal, RVague, RRefusalData, ROfficers, RCiteSecret, RCiteNoSuch, RCiteBudget, RCiteTwo, RCiteAsPer}

\* rag_documents as the checks read them: the source attribute, empty when absent
\* Report.pdf
SrcReport == [source |-> <<"R","e","p","o","r","t",".","p","d","f">>]
\* e.pdf
SrcE == [source |-> <<"e",".","p","d","f">>]
\* Budget_Report.pdf
SrcBudget == [source |-> <<"B","u","d","g","e","t","_","R","e","p","o","r","t",".","p","d","f">>]
\* (no source)
SrcNone == [source |-> <<>>]
LegalDocPool == {SrcReport, SrcE, SrcBudget, SrcNone}

MaxLegalDocs == 2
ModePool == {"RTI", "UK_GDPR", "EU_AI_ACT", "US_FOIA"}

\* The two checks tabulated over the pools
Section8Table ==
    [q \in QueryPool, r \in ResponsePool |-> check_section_8_compliance(q, r)]
CitationTable ==
    [r \in ResponsePool, ds \in SeqsUpTo(LegalDocPool, MaxLegalDocs) |->
        validate_citation_integrity(r, ds)]

\* a MetricResult of compute(): name, raw_value, normalized_score, explanation
\* (its fixed wording and the names it lists)
Metric(n, raw, e) ==
    [name |-> n, raw_value |-> raw,
     normalized_score |-> normalize_score(raw, 0, 100, FALSE), explanation |-> e]

\* compute(), lines 246-247
EffectiveMode(compliance_mode) ==
    IF compliance_mode \notin COMPLIANCE_MODES THEN "RTI" ELSE compliance_mode

\* compute(), lines 253-263: the section_8_compliance metric, appended under RTI only
Section8Metrics(query, response, compliance_mode) ==
    IF EffectiveMode(compliance_mode) = "RTI"
    THEN LET r == Section8Table[query, response]
         IN  <<Metric("section_8_compliance", r.score, r.explanation)>>
    ELSE <<>>

\* compute(), lines 368-376: the citation_integrity metric
CitationIntegrityMetric(response, rag_documents) ==
    LET r == CitationTable[response, rag_documents]
    IN  Metric("citation_integrity", r.score,
               IF r.fake_citations = <<>>
               THEN [text |-> "All cited sources verified", names |-> <<>>]
               ELSE [text |-> "FAKE", names |-> r.fake_citations])

\* compute(), lines 253-263
Section8Check ==
    /\ lpc = "start"
    /\ lMetrics' = lMetrics \o Section8Metrics(lQuery, lResponse, lMode)
    /\ lpc' = "common"
    /\ UNCHANGED <<lQuery, lResponse, lDocs, lMode>>

\* compute(), lines 368-378
CitationIntegrityCheck ==
    /\ lpc = "common"
    /\ lMetrics' = Append(lMetrics, CitationIntegrityMetric(lResponse, lDocs))
    /\ lpc' = "done"
    /\ UNCHANGED <<lQuery, lResponse, lDocs, lMode>>

----------------------------------------------------------------------------
(* detect_hallucinations applied to arbitrary claims and their matches *)

MaxDetect == 2
ClaimTypes == {"NUMERIC", "ENTITY", "TEMPORAL", "CITATION", "ASSERTION"}

\* match confidences (thousandths) on both sides of 0.2, 0.3 and 0.5
ConfLevels == {0, 200, 250, 300, 400, 500, 900}

\* a claim and its SourceMatch, by index
ClaimAndMatch == [claim_type : ClaimTypes, matched : BOOLEAN, conf : ConfLevels]

ApplyDetect ==
    /\ dpc = "start"
    /\ dFindings' = detect_hallucinations(dClaims, dMatches)
    /\ dpc' = "done"
    /\ UNCHANGED <<dClaims, dMatches>>

----------------------------------------------------------------------------
(* match_single_claim applied to arbitrary per-document strategy outcomes *)

MaxMatchDocs == 3
MatchDocIds == <<"d1", "d2", "d3">>

\* cosine similarities and token_set_ratio scores (hundredths) on both sides
\* of every threshold of _semantic_match and _fuzzy_match
MatchSims == {30, 50, 60, 75, 100}
MatchFuzz == {20, 40, 60, 80, 95}

\* What the strategies give for one document: _exact_match hits, or
\* _semantic_match returns a tuple for the similarity, or it returns None
\* (no backend, or an embed request raised) and _fuzzy_match scores the pair.
DocOutcomes ==
    {[kind |-> "exact", val |-> 0]}
    \cup {[kind |-> "semantic", val |-> v] : v \in MatchSims}
    \cup {[kind |-> "fuzzy", val |-> v] : v \in MatchFuzz}

\* the (is_matched, confidence, match_type) tuple of one document
StrategyResult(o) ==
    IF o.kind = "exact" THEN Result(TRUE, 1000, "EXACT")
    ELSE IF o.kind = "semantic" THEN SemanticCurve(o.val)
    ELSE FuzzyMatch(NoneResult, TRUE, o.val)

\* lines 290-300: the exact hit returns at once
MatchExact ==
    /\ mpc = "loop" /\ mi <= Len(mOutcomes)
    /\ mOutcomes[mi].kind = "exact"
    /\ mBest' = SourceMatch(TRUE, MatchDocIds[mi], "EXACT", 1000)
    /\ mpc' = "done"
    /\ UNCHANGED <<mOutcomes, mi>>

\* lines 303-316
MatchSemantic ==
    /\ mpc = "loop" /\ mi <= Len(mOutcomes)
    /\ mOutcomes[mi].kind = "semantic"
    /\ mBest' = Better(mBest, StrategyResult(mOutcomes[mi]), MatchDocIds[mi])
    /\ mi' = mi + 1
    /\ UNCHANGED <<mpc, mOutcomes>>

\* lines 319-331
MatchFuzzy ==
    /\ mpc = "loop" /\ mi <= Len(mOutcomes)
    /\ mOutcomes[mi].kind = "fuzzy"
    /\ mBest' = Better(mBest, StrategyResult(mOutcomes[mi]), MatchDocIds[mi])
    /\ mi' = mi + 1
    /\ UNCHANGED <<mpc, mOutcomes>>

\* line 333
MatchReturn ==
    /\ mpc = "loop" /\ mi > Len(mOutcomes)
    /\ mpc' = "done"
    /\ UNCHANGED <<mOutcomes, mi, mBest>>

----------------------------------------------------------------------------
(* compute_all_metrics: the metadata map through the nine computers *)

\* sentences of the response calculate_groundedness counts as claims
MaxSentences == 2

\* dict.get's None for a key the map does not hold
Absent == -1
\* a value that is not a number (a string)
NonNumeric == -2
\* a *_details value: of this call's inputs, or left by a call on other inputs
DetailsHere == 1
DetailsOther == 2

\* the keys of metadata that some computer writes or that can make one raise
MetaKeys == {"verified_claims", "total_claims", "hallucinated_claims",
             "groundedness_details", "section_8_details", "citation_details",
             "human_feedback_score"}

EmptyMeta == [k \in MetaKeys |-> Absent]

Counts(t, v, h) == [total |-> t, verified |-> v, hallucinated |-> h]
NoCounts == Counts(Absent, Absent, Absent)

\* the order compute_all_metrics runs the computers in, response_quality first
WireOrderQualityFirst ==
    <<"response_quality", "bias_fairness", "data_grounding", "explainability",
      "ethical_alignment", "human_control", "legal_compliance", "security",
      "environmental_cost">>

\* the order compute_all_metrics runs the computers in (lines 117-214)
WireOrder == DimensionOrder

\* What the call's query, response and documents determine:
\*   docs      whether rag_documents is non-empty
\*   dg        total_claims / supported_claims of calculate_groundedness
\*             (sentence based); with no documents details is {"error": ...}
\*   estimate  calculate_accuracy's own estimate (hundredths): 0.5 with no
\*             documents, else 0.35 numbers + 0.25 dates + 0.4 sources
\*   vr        the counts verify_response gives for response and documents
\*             with no embedding backend
GroundednessOutcomes(hasDocs) ==
    IF hasDocs
    THEN {r \in [total : 0..MaxSentences, supported : 0..MaxSentences] :
             r.supported <= r.total}
    ELSE {[total |-> Absent, supported |-> Absent]}

AccuracyEstimates(hasDocs) == IF hasDocs THEN {0, 35, 100} ELSE {50}

\* with no documents no claim is verified
VerifyCounts(hasDocs) ==
    IF hasDocs THEN {Counts(0, 0, 0), Counts(1, 1, 0), Counts(3, 1, 2)}
    ELSE {Counts(0, 0, 0), Counts(2, 0, 2)}

WireInputs ==
    UNION {[docs : {b}, dg : GroundednessOutcomes(b), estimate : AccuracyEstimates(b),
            vr : VerifyCounts(b)] : b \in BOOLEAN}

\* The maps a caller passes: empty; the verification counts folded in by the
\* caller; a map an earlier call on other inputs has been through; a map with
\* a human_feedback_score, numeric or not.
SuppliedMaps(in) ==
    { EmptyMeta,
      [EmptyMeta EXCEPT !["verified_claims"] = in.vr.verified,
                        !["total_claims"] = in.vr.total,
                        !["hallucinated_claims"] = in.vr.hallucinated],
      [EmptyMeta EXCEPT !["verified_claims"] = 0, !["total_claims"] = 2,
                        !["hallucinated_claims"] = 2,
                        !["groundedness_details"] = DetailsOther,
                        !["section_8_details"] = DetailsOther,
                        !["citation_details"] = DetailsOther],
      [EmptyMeta EXCEPT !["human_feedback_score"] = 90],
      [EmptyMeta EXCEPT !["human_feedback_score"] = NonNumeric] }

\* details.get(key, 0) of data_grounding.compute lines 70-72
DetailsGet(v) == IF v = Absent THEN 0 ELSE v

\* data_grounding.compute: writes groundedness_details and the three counts
\* into metadata; raw value of groundedness_score (hundredths)
DataGrounding(meta, in) ==
    LET total == DetailsGet(in.dg.total)
        supported == DetailsGet(in.dg.supported)
    IN  [meta |-> [meta EXCEPT !["groundedness_details"] = DetailsHere,
                               !["hallucinated_claims"] = total - supported,
                               !["total_claims"] = total,
                               !["verified_claims"] = supported],
         out |-> IF total > 0 THEN (supported * 100) \div total ELSE 0,
         raised |-> FALSE]

\* legal_compliance.compute in the default RTI mode: writes section_8_details
\* and citation_details into metadata
LegalCompliance(meta, in) ==
    [meta |-> [meta EXCEPT !["section_8_details"] = DetailsHere,
                           !["citation_details"] = DetailsHere],
     out |-> 0,
     raised |-> FALSE]

\* response_quality.calculate_accuracy lines 101-106 (hundredths)
ResponseQuality(meta, in) ==
    LET verified == meta["verified_claims"]
        total == meta["total_claims"]
    IN  [meta |-> meta,
         out |-> IF verified # Absent /\ total # Absent /\ total > 0
                 THEN (verified * 100) \div total
                 ELSE in.estimate,
         raised |-> FALSE]

\* ethical_alignment.compute lines 70-77: normalize_score raises TypeError on
\* a score that is not a number
EthicalAlignment(meta, in) ==
    LET human_score == IF meta["human_feedback_score"] = Absent
                       THEN 80 ELSE meta["human_feedback_score"]
    IN  [meta |-> meta,
         out |-> IF human_score = NonNumeric THEN 0 ELSE human_score,
         raised |-> human_score = NonNumeric]

\* bias_fairness, explainability, human_control, security, environmental_cost:
\* they write no key and read none of MetaKeys; their metrics are fixed by
\* query, response and documents
InputOnly(meta, in) == [meta |-> meta, out |-> 0, raised |-> FALSE]

Computer(d, meta, in) ==
    IF d = "data_grounding" THEN DataGrounding(meta, in)
    ELSE IF d = "legal_compliance" THEN LegalCompliance(meta, in)
    ELSE IF d = "response_quality" THEN ResponseQuality(meta, in)
    ELSE IF d = "ethical_alignment" THEN EthicalAlignment(meta, in)
    ELSE InputOnly(meta, in)

NotRun == -3
NoOut == [d \in AllDims |-> NotRun]
NoFirst == [out |-> NoOut, result |-> NoCounts, raised |-> FALSE, verify |-> NoCounts]

\* verify_response called with no embedding backend: the lazy lookup of
\* _get_embeddings_model gives None whatever the global is
WireVerify ==
    /\ wpc = "idle" /\ wVerifyOut = NoCounts
    /\ \E env \in InitOutcomes \ {"ok"} :
          LET g == GetEmbeddingsModel(wEmb, "None", env)
          IN  /\ wEmb' = g.avail
              /\ wVerifyOut' = IF g.ret = "None" THEN wIn.vr ELSE NoCounts
    /\ UNCHANGED <<wpc, wIn, wMetaArg, wSupplied, wMeta, wRan, wOut, wResult, wCall, wFirst,
                   wSameMap>>

\* compute_all_metrics lines 108-115; the second of two calls is handed the
\* same map object or an equal fresh one
StartWire ==
    /\ wpc = "idle"
    /\ \E same \in IF wCall = 2 /\ wMetaArg = "map" THEN BOOLEAN ELSE {FALSE} :
          /\ wSameMap' = same
          /\ wMeta' = IF wMetaArg = "none" THEN EmptyMeta
                      ELSE IF same THEN wMeta ELSE wSupplied
    /\ wpc' = "dims"
    /\ wRan' = {} /\ wOut' = NoOut /\ wResult' = NoCounts
    /\ UNCHANGED <<wIn, wMetaArg, wSupplied, wCall, wFirst, wEmb, wVerifyOut>>

\* one computer called on (query, response, rag_documents, metadata)
RunComputer(d) ==
    LET c == Computer(d, wMeta, wIn)
    IN  /\ wRan' = wRan \cup {d}
        /\ wMeta' = c.meta
        /\ IF c.raised
           THEN wpc' = "raised" /\ wOut' = wOut
           ELSE wpc' = wpc /\ wOut' = [wOut EXCEPT ![d] = c.out]
        /\ UNCHANGED <<wIn, wMetaArg, wSupplied, wResult, wCall, wFirst, wEmb, wVerifyOut,
                       wSameMap>>

\* lines 117-214: the next computer in the order of the code
RunNext ==
    /\ wpc = "dims"
    /\ \E i \in 1..Len(WireOrder) :
          /\ WireOrder[i] \notin wRan
          /\ \A j \in 1..(i - 1) : WireOrder[j] \in wRan
          /\ RunComputer(WireOrder[i])

\* the computers called in any order on the same map
RunAny ==
    /\ wpc = "dims"
    /\ \E d \in AllDims \ wRan : RunComputer(d)

\* lines 216-231
FinishWire ==
    /\ wpc = "dims" /\ wRan = AllDims
    /\ wResult' = Counts(DetailsGet(wMeta["total_claims"]),
                         DetailsGet(wMeta["verified_claims"]),
                         DetailsGet(wMeta["hallucinated_claims"]))
    /\ wpc' = "done"
    /\ UNCHANGED <<wIn, wMetaArg, wSupplied, wMeta, wRan, wOut, wCall, wFirst, wEmb, wVerifyOut,
                   wSameMap>>

\* the caller goes on to a second round with identical inputs
SecondRound ==
    /\ wpc \in {"done", "raised"} /\ wCall = 1
    /\ wFirst' = [out |-> wOut, result |-> wResult, raised |-> wpc = "raised",
                  verify |-> wVerifyOut]
    /\ wCall' = 2
    /\ wpc' = "idle"
    /\ wVerifyOut' = NoCounts
    /\ UNCHANGED <<wIn, wMetaArg, wSupplied, wMeta, wRan, wOut, wResult, wEmb, wSameMap>>

----------------------------------------------------------------------------
(* verify_response lines 72-87 applied to arbitrary counts and findings *)

MaxTotal == 7
MaxScoreFindings == 4

\* final_score rounded, for the given findings
ScoreFor(verified, total, sevs, strictMode) ==
    FinalScore(verified, total, calculate_hallucination_penalty(sevs), strictMode, Len(sevs))

ApplyScore ==
    /\ spc = "start"
    /\ sBefore' = ScoreFor(sVerified, sTotal, sFindings, sStrict)
    /\ sAfter' = ScoreFor(sVerified, sTotal, Append(sFindings, "HIGH"), sStrict)
    /\ spc' = "done"
    /\ UNCHANGED <<sVerified, sTotal, sStrict, sFindings>>

----------------------------------------------------------------------------
(* claim_extractor.py: the order of the claims list *)

MaxTextSentences == 2
MaxPatterns == 2
MaxOffset == 1
MaxFound == 2

\* the order extract_claims_from_sentence applies its pattern groups in
PatternTypes == <<"NUMERIC", "ENTITY", "TEMPORAL", "CITATION">>

\* one re.finditer match in a sentence: the group and pattern that found it
\* and match.start()
Found == [type : {PatternTypes[k] : k \in 1..Len(PatternTypes)},
          pat : 1..MaxPatterns, at : 0..MaxOffset]

\* a sentence of ten characters or more: what the patterns find in it and
\* whether it holds a factual indicator
RECURSIVE SubsetsUpTo(_, _)
SubsetsUpTo(S, n) ==
    IF n = 0 THEN {{}}
    ELSE LET prev == SubsetsUpTo(S, n - 1)
         IN  prev \cup {T \cup {x} : T \in prev, x \in S}

SentencePool ==
    {[found |-> {}, factual |-> f] : f \in BOOLEAN}
    \cup {[found |-> F, factual |-> TRUE] : F \in SubsetsUpTo(Found, MaxFound) \ {{}}}

\* response.find(sentence, current_pos): the sentences follow one another
SentenceStart(k) == (k - 1) * (MaxOffset + 2)

\* the integers of S in increasing order (re.finditer scans left to right)
RECURSIVE Ascending(_)
Ascending(S) ==
    IF S = {} THEN <<>>
    ELSE LET m == CHOOSE x \in S : \A y \in S : x <= y
         IN  <<m>> \o Ascending(S \ {m})

\* the claims one pattern appends
PatternClaims(sen, start, type, pat) ==
    LET ats == Ascending({f.at : f \in {g \in sen.found : g.type = type /\ g.pat = pat}})
    IN  [i \in 1..Len(ats) |-> [claim_type |-> type, start_pos |-> start + ats[i]]]

RECURSIVE GroupClaims(_, _, _, _)
GroupClaims(sen, start, type, pat) ==
    IF pat > MaxPatterns THEN <<>>
    ELSE PatternClaims(sen, start, type, pat) \o GroupClaims(sen, start, type, pat + 1)

RECURSIVE AllGroups(_, _, _)
AllGroups(sen, start, k) ==
    IF k > Len(PatternTypes) THEN <<>>
    ELSE GroupClaims(sen, start, PatternTypes[k], 1) \o AllGroups(sen, start, k + 1)

\* extract_claims_from_sentence: group after group, pattern after pattern;
\* the whole sentence as an ASSERTION when nothing was found
extract_claims_from_sentence(sen, start) ==
    LET cs == AllGroups(sen, start, 1)
    IN  IF cs = <<>> /\ sen.factual
        THEN <<[claim_type |-> "ASSERTION", start_pos |-> start]>>
        ELSE cs

RECURSIVE ExtractFrom(_, _)
ExtractFrom(sens, k) ==
    IF k > Len(sens) THEN <<>>
    ELSE extract_claims_from_sentence(sens[k], SentenceStart(k)) \o ExtractFrom(sens, k + 1)

\* extract_claims: sentence after sentence
extract_claims(sens) == ExtractFrom(sens, 1)

\* pipeline.py line 49
ExtractStep ==
    /\ tpc = "start"
    /\ tClaims' = extract_claims(tSentences)
    /\ tpc' = "extracted"
    /\ UNCHANGED <<tSentences, tMatches, tFindings>>

\* match_to_sources lines 246-248: one SourceMatch appended per claim, in the
\* order of the claims; which claims are matched is the matcher's business
MatchStep ==
    /\ tpc = "extracted"
    /\ \E S \in {{}, {i \in 1..Len(tClaims) : i % 2 = 1}, 1..Len(tClaims)} :
          tMatches' = [i \in 1..Len(tClaims) |->
                          IF i \in S THEN SourceMatch(TRUE, "d1", "EXACT", 1000) ELSE NoMatch]
    /\ tpc' = "matched"
    /\ UNCHANGED <<tSentences, tClaims, tFindings>>

\* pipeline.py line 69
DetectStep ==
    /\ tpc = "matched"
    /\ tFindings' = detect_hallucinations(tClaims, tMatches)
    /\ tpc' = "done"
    /\ UNCHANGED <<tSentences, tClaims, tMatches>>

----------------------------------------------------------------------------
(* the jurisdiction: compute_all_metrics and legal_compliance.compute *)

\* compute(), lines 253-315: the names of the metrics each mode appends
ModeMetricNames(mode) ==
    IF mode = "RTI" THEN <<"section_8_compliance">>
    ELSE IF mode = "UK_GDPR"
         THEN <<"article_22_explanation", "foi_act_compliance", "data_minimization">>
         ELSE <<"high_risk_detection", "transparency_disclosure">>

\* the mode-specific part of what compute() returns
ModeMetrics(query, response, compliance_mode) ==
    [names |-> ModeMetricNames(EffectiveMode(compliance_mode)),
     section_8 |-> Section8Metrics(query, response, compliance_mode)]

\* legal_compliance.compute's default for compliance_mode (line 226)
DefaultMode == "RTI"

\* legal_compliance.compute called with the jurisdiction asked for
ComputeWithMode ==
    /\ jpc = "start"
    /\ jMetrics' = ModeMetrics(jQuery, jResponse, jRequested)
    /\ jVia' = "compute"
    /\ jpc' = "done"
    /\ UNCHANGED <<jQuery, jResponse, jRequested>>

\* compute_all_metrics line 173: its signature has no jurisdiction and it
\* calls legal_compliance.compute(query, response, rag_documents, metadata),
\* whatever the caller put in metadata
EvaluateWithMode ==
    /\ jpc = "start"
    /\ jMetrics' = ModeMetrics(jQuery, jResponse, DefaultMode)
    /\ jVia' = "evaluate"
    /\ jpc' = "done"
    /\ UNCHANGED <<jQuery, jResponse, jRequested>>

----------------------------------------------------------------------------
(* The SDK client: EnduranceClient.evaluate (endurance-sdk/endurance/client.py) *)

MaxRetries == 6
MaxClientDocs == 1
BackoffCap == 10

\* Python's None for a text argument left out.  A text is a sequence of one-character
\* strings, so this value is no text.
PyNone == <<"None">>

\* `not x` for a string argument: None and the empty string are falsy
Falsy(x) == x = PyNone \/ x = <<>>

ClientTexts == {PyNone, <<>>, <<"q">>}

\* What one POST can come back with.  kind: timeout (httpx.TimeoutException), error (any
\* other exception of the transport), http (a response).  body: result (a JSON object that
\* EvaluationResult accepts), object (another JSON object), other (not JSON, or JSON that
\* is not an object).
Statuses == {200, 400, 401, 429, 500}
Bodies == {"result", "object", "other"}
NoReply == [kind |-> "none", status |-> 0, body |-> "other"]
Replies ==
    {[kind |-> "timeout", status |-> 0, body |-> "other"],
     [kind |-> "error", status |-> 0, body |-> "other"]}
    \cup {[kind |-> "http", status |-> st, body |-> b] : st \in Statuses, b \in Bodies}

RECURSIVE Pow2(_)
Pow2(n) == IF n = 0 THEN 1 ELSE 2 * Pow2(n - 1)

\* _wait_exponential: the seconds slept after the failed attempt
WaitExponential(attempt) == Min(Pow2(attempt), BackoffCap)

\* The body of the try block for one reply: what it returns or raises.
\* retry = TRUE is the three handlers that set last_error and go round again.
AttemptOutcome(reply) ==
    IF reply.kind = "timeout" THEN [retry |-> TRUE, error |-> "TimeoutError"]
    ELSE IF reply.kind = "error" THEN [retry |-> TRUE, error |-> "EnduranceError"]
    ELSE IF reply.status = 429 THEN [retry |-> FALSE, error |-> "RateLimitError"]
    ELSE IF reply.status = 401 THEN [retry |-> FALSE, error |-> "AuthenticationError"]
    ELSE IF reply.status = 400 THEN
        \* http_response.json().get("detail", ...) raises on a body that is not a JSON
        \* object, and `except Exception` catches that
        IF reply.body = "other" THEN [retry |-> TRUE, error |-> "EnduranceError"]
        ELSE [retry |-> FALSE, error |-> "ValidationError"]
    ELSE IF reply.status \in 200..299 THEN
        \* EvaluationResult(**data) raises on a body that is not a result
        IF reply.body = "result" THEN [retry |-> FALSE, error |-> "result"]
        ELSE [retry |-> TRUE, error |-> "EnduranceError"]
    ELSE [retry |-> TRUE, error |-> "EnduranceError"]

\* lines 117-131: the validation and the payload
ClientValidate ==
    /\ cpc = "start"
    /\ cVia' = "client"
    /\ IF Falsy(cQuery) \/ Falsy(cResponse) \/ Falsy(cServiceId)
       THEN cpc' = "raised" /\ cOutcome' = "ValidationError"
       ELSE cpc' = "loop" /\ cOutcome' = cOutcome
    /\ UNCHANGED <<cQuery, cResponse, cServiceId, cDocs, cMaxRetries, cAttempt, cPosts, cReply,
                   cWaits, cLastError, cScored>>

\* lines 140-190: one round of the retry loop, the sleep included
ClientAttempt ==
    /\ cpc = "loop" /\ cAttempt < cMaxRetries
    /\ \E reply \in Replies :
        LET out == AttemptOutcome(reply) IN
        /\ cReply' = reply
        /\ cPosts' = cPosts + 1
        /\ IF ~out.retry
           THEN /\ cpc' = IF out.error = "result" THEN "returned" ELSE "raised"
                /\ cOutcome' = out.error
                /\ UNCHANGED <<cLastError, cAttempt, cWaits>>
           ELSE /\ cLastError' = out.error
                /\ IF cAttempt = cMaxRetries - 1
                   THEN /\ cpc' = "raised" /\ cOutcome' = out.error
                        /\ UNCHANGED <<cAttempt, cWaits>>
                   ELSE /\ cWaits' = Append(cWaits, WaitExponential(cAttempt))
                        /\ cAttempt' = cAttempt + 1
                        /\ UNCHANGED <<cpc, cOutcome>>
    /\ UNCHANGED <<cQuery, cResponse, cServiceId, cDocs, cMaxRetries, cVia, cScored>>

\* line 193: the loop ran out without raising (max_retries = 0)
ClientExhausted ==
    /\ cpc = "loop" /\ cAttempt >= cMaxRetries
    /\ cpc' = "raised"
    /\ cOutcome' = IF cLastError = "None" THEN "EnduranceError" ELSE cLastError
    /\ UNCHANGED <<cQuery, cResponse, cServiceId, cDocs, cMaxRetries, cAttempt, cPosts, cReply,
                   cWaits, cLastError, cVia, cScored>>

\* compute_all_metrics: no check of query or response; the computers run in DimensionOrder.
\* A response of None fails in the first computer (bias_fairness, response.lower()), a query
\* of None in the sixth (legal_compliance, query.lower()); the empty text is scored.
EngineScored(query, response) ==
    IF response = PyNone THEN 0
    ELSE IF query = PyNone THEN 5
    ELSE Len(DimensionOrder)

EngineEvaluate ==
    /\ cpc = "start"
    /\ cVia' = "engine"
    /\ cScored' = EngineScored(cQuery, cResponse)
    /\ IF cQuery = PyNone \/ cResponse = PyNone
       THEN cpc' = "raised" /\ cOutcome' = "AttributeError"
       ELSE cpc' = "returned" /\ cOutcome' = "result"
    /\ UNCHANGED <<cQuery, cResponse, cServiceId, cDocs, cMaxRetries, cAttempt, cPosts, cReply,
                   cWaits, cLastError>>

----------------------------------------------------------------------------
(* The chatbot: POST /chat and send_to_endurance (chatbot/api.py) *)

MaxChatDocs == 2

\* custom_weights as carried by a /chat body: a map from dimension to weight (hundredths);
\* given = FALSE is a body without the key
WeightMaps ==
    {[given |-> TRUE, security |-> 80, tone |-> 20], [given |-> TRUE, security |-> 50, tone |-> 50]}

NoCustomWeights == [given |-> FALSE, security |-> 0, tone |-> 0]

\* The JSON body of a /chat request.
ChatBodies ==
    [message : {<<"q">>},
     include_evaluation : BOOLEAN,
     enable_reasoning : BOOLEAN,
     custom_weights : {NoCustomWeights} \cup WeightMaps]

NoBody ==
    [message |-> <<>>, include_evaluation |-> TRUE, enable_reasoning |-> FALSE,
     custom_weights |-> NoCustomWeights]

\* ChatRequest(**body): the model declares message, session_id, include_evaluation,
\* enable_reasoning and reasoning_effort; a key it does not declare is dropped.
ParseChatRequest(body) ==
    [message |-> body.message,
     include_evaluation |-> body.include_evaluation,
     enable_reasoning |-> body.enable_reasoning]

\* What the chain returns: the answer, the documents, a reasoning trace with
\* query_with_reasoning, and metadata that may be missing or empty.
ChainResults ==
    [answer : {<<"a">>},
     rag_documents : 0..MaxChatDocs,
     reasoning_trace : {PyNone, <<"t">>},
     metadata : {<<>>, <<"m">>}]

NoChain == [answer |-> <<>>, rag_documents |-> 0, reasoning_trace |-> PyNone, metadata |-> <<>>]

EnduranceStatuses == {0, 200, 500}

\* lines 281-304: the payload send_to_endurance builds
EndurancePayload(query, response, rag_documents, reasoning_trace, metadata) ==
    LET base == [k \in {"session_id", "query", "response", "service_id", "rag_documents"} |->
                    IF k = "query" THEN query
                    ELSE IF k = "response" THEN response
                    ELSE IF k = "service_id" THEN <<"rti_chatbot">>
                    ELSE IF k = "rag_documents" THEN rag_documents
                    ELSE <<"session">>]
        trace == IF Falsy(reasoning_trace) THEN base
                 ELSE base @@ ("reasoning_trace" :> reasoning_trace)
    IN IF metadata = <<>> THEN trace ELSE trace @@ ("metadata" :> metadata)

\* lines 213-244: parse the request, ask the chain, format the sources
ChatAnswer ==
    /\ hpc = "start"
    /\ hRequest' = ParseChatRequest(hBody)
    /\ \E res \in ChainResults :
        /\ (res.reasoning_trace # PyNone) => hBody.enable_reasoning
        /\ hResult' = res
    /\ hpc' = IF hRequest'.include_evaluation THEN "send" ELSE "done"
    /\ UNCHANGED <<hBody, hReplyStatus, hPayload, hPosted, hEvaluation>>

\* lines 246-256 and 269-320: the call of send_to_endurance and the ChatResponse
SendToEndurance ==
    /\ hpc = "send"
    /\ hPayload' = EndurancePayload(hRequest.message, hResult.answer, hResult.rag_documents,
                                    hResult.reasoning_trace, hResult.metadata)
    /\ hPosted' = TRUE
    /\ hEvaluation' = IF hReplyStatus = 200 THEN "evaluation" ELSE "error"
    /\ hpc' = "done"
    /\ UNCHANGED <<hBody, hRequest, hResult, hReplyStatus>>

----------------------------------------------------------------------------
(* Groundedness: calculate_groundedness (metrics/dimensions/data_grounding.py) *)

MaxGroundSentences == 2
MaxKeyWords == 10
MaxGroundDocs == 1
MinSentenceChars == 10
MinKeyWordChars == 4

\* One piece of the response between two of . ! ?:
\*   chars    len(s.strip())
\*   key      its words longer than MinKeyWordChars characters
\*   matches  those of them that are substrings of the lowercased, concatenated documents
\* The key words and the blanks between them bound chars from below.
GroundPieces ==
    {p \in [chars : {MinSentenceChars, MinSentenceChars + 1, (MinKeyWordChars + 2) * MaxKeyWords},
            key : 0..MaxKeyWords, matches : 0..MaxKeyWords] :
        /\ p.matches <= p.key
        /\ p.key > 0 => p.chars >= (MinKeyWordChars + 2) * p.key - 1}

\* line 134: match_ratio > 0.3, with match_ratio = matches / len(key_words)
IsSupported(found, key) == 10 * found > 3 * key

\* line 114: the pieces kept as sentences
KeptSentences(pieces) == SelectSeq(pieces, LAMBDA p : p.chars > MinSentenceChars)

\* lines 123-128: a sentence without key words is passed over
CountedSentences(pieces) == SelectSeq(KeptSentences(pieces), LAMBDA p : p.key > 0)

NoGroundedness == [error |-> FALSE, supported |-> 0, total |-> 0, groundedness |-> 0]

\* calculate_groundedness; groundedness in hundredths
calculate_groundedness(pieces, ndocs) ==
    IF ndocs = 0 THEN [error |-> TRUE, supported |-> 0, total |-> 0, groundedness |-> 0]
    ELSE LET counted == CountedSentences(pieces)
             supported == Len(SelectSeq(counted, LAMBDA p : IsSupported(p.matches, p.key)))
             total == Len(counted)
         IN [error |-> FALSE, supported |-> supported, total |-> total,
             groundedness |-> IF total > 0 THEN (100 * supported) \div total ELSE 0]

CalculateGroundedness ==
    /\ gpc = "start"
    /\ gResult' = calculate_groundedness(gSentences, gDocs)
    /\ gpc' = "done"
    /\ UNCHANGED <<gSentences, gDocs>>

----------------------------------------------------------------------------
(* Specifications *)

VerifyIdle ==
    /\ vpc = "off"
    /\ claims = <<>> /\ docs = <<>> /\ source_contents = <<>> /\ strict = FALSE /\ ci = 0 /\ di = 0
    /\ best = NoMatch /\ matches = <<>> /\ report = NoReport
    /\ embAvailable = "None" /\ embModel = "None" /\ rapidfuzz = FALSE
    /\ embedRequests = 0 /\ degraded = FALSE /\ consulted = NoneConsulted

PenaltyIdle == ppc = "off" /\ pFindings = <<>> /\ pPenalty = 0

EvalIdle == epc = "off" /\ eWeights = NoCustomWeights /\ eDims = <<>> /\ eOverall = 0

LegalIdle ==
    /\ lpc = "off" /\ lQuery = <<>> /\ lResponse = <<>> /\ lDocs = <<>>
    /\ lMode = "RTI" /\ lMetrics = <<>>

DetectIdle == dpc = "off" /\ dClaims = <<>> /\ dMatches = <<>> /\ dFindings = <<>>

MatchIdle == mpc = "off" /\ mOutcomes = <<>> /\ mi = 0 /\ mBest = NoMatch

WireIdle ==
    /\ wpc = "off" /\ wIn = <<>> /\ wMetaArg = "none" /\ wSupplied = <<>> /\ wMeta = <<>>
    /\ wRan = {} /\ wOut = <<>> /\ wResult = <<>> /\ wCall = 0 /\ wFirst = <<>>
    /\ wEmb = "None" /\ wVerifyOut = <<>> /\ wSameMap = FALSE

ScoreIdle ==
    /\ spc = "off" /\ sVerified = 0 /\ sTotal = 0 /\ sStrict = FALSE /\ sFindings = <<>>
    /\ sBefore = 0 /\ sAfter = 0

TextIdle ==
    /\ tpc = "off" /\ tSentences = <<>> /\ tClaims = <<>> /\ tMatches = <<>> /\ tFindings = <<>>

JurisIdle ==
    /\ jpc = "off" /\ jQuery = <<>> /\ jResponse = <<>> /\ jRequested = "RTI"
    /\ jVia = "none" /\ jMetrics = <<>>

ClientIdle ==
    /\ cpc = "off" /\ cQuery = <<>> /\ cResponse = <<>> /\ cServiceId = <<>> /\ cDocs = 0
    /\ cMaxRetries = 0 /\ cAttempt = 0 /\ cPosts = 0 /\ cReply = NoReply /\ cWaits = <<>>
    /\ cLastError = "None" /\ cOutcome = "none" /\ cVia = "none" /\ cScored = 0

ChatIdle ==
    /\ hpc = "off" /\ hBody = NoBody /\ hRequest = ParseChatRequest(NoBody) /\ hResult = NoChain
    /\ hReplyStatus = 0 /\ hPayload = <<>> /\ hPosted = FALSE /\ hEvaluation = "none"

GroundIdle ==
    /\ gpc = "off" /\ gSentences = <<>> /\ gDocs = 0 /\ gResult = NoGroundedness

XIdle == DetectIdle /\ MatchIdle /\ WireIdle /\ ScoreIdle /\ TextIdle /\ JurisIdle /\ ClientIdle /\ ChatIdle /\ GroundIdle

\* a fresh process: the matcher's globals as at import
InitVerify ==
    /\ vpc = "idle"
    /\ claims = <<>> /\ docs = <<>> /\ source_contents = <<>> /\ strict = FALSE /\ ci = 0 /\ di = 0
    /\ best = NoMatch /\ matches = <<>> /\ report = NoReport
    /\ embAvailable = "None" /\ embModel = "None"
    /\ rapidfuzz \in BOOLEAN
    /\ embedRequests = 0 /\ degraded = FALSE /\ consulted = NoneConsulted
    /\ PenaltyIdle
    /\ EvalIdle
    /\ LegalIdle
    /\ XIdle

NextVerify ==
    \/ StartVerify /\ UNCHANGED <<pvars, evars, lvars, xvars>>
    \/ ClaimShort /\ UNCHANGED <<pvars, evars, lvars, xvars>>
    \/ PairExact /\ UNCHANGED <<pvars, evars, lvars, xvars>>
    \/ PairSemantic /\ UNCHANGED <<pvars, evars, lvars, xvars>>
    \/ PairFuzzy /\ UNCHANGED <<pvars, evars, lvars, xvars>>
    \/ ClaimDone /\ UNCHANGED <<pvars, evars, lvars, xvars>>
    \/ DetectAndScore /\ UNCHANGED <<pvars, evars, lvars, xvars>>
    \/ Return /\ UNCHANGED <<pvars, evars, lvars, xvars>>

Spec == InitVerify /\ [][NextVerify]_vars

\* verify_response runs to its return once called: no step of it waits on anything
SpecVerifyFair == Spec /\ WF_vars(InCallStep /\ UNCHANGED <<pvars, evars, lvars, xvars>>)

InitPenalty ==
    /\ VerifyIdle
    /\ EvalIdle
    /\ LegalIdle
    /\ ppc = "start"
    /\ pFindings \in SeqsUpTo(SeverityLevels, MaxFindings)
    /\ pPenalty = 0
    /\ XIdle

NextPenalty == ApplyPenalty /\ UNCHANGED <<vvars, evars, lvars, xvars>>

SpecPenalty == InitPenalty /\ [][NextPenalty]_vars

InitEval ==
    /\ VerifyIdle
    /\ PenaltyIdle
    /\ LegalIdle
    /\ epc = "start" /\ eWeights = NoCustomWeights /\ eDims = <<>> /\ eOverall = 0
    /\ XIdle

NextEval ==
    \/ StartEvaluate /\ UNCHANGED <<vvars, pvars, lvars, xvars>>
    \/ ComputeDimension /\ UNCHANGED <<vvars, pvars, lvars, xvars>>
    \/ Aggregate /\ UNCHANGED <<vvars, pvars, lvars, xvars>>

SpecEval == InitEval /\ [][NextEval]_vars

\* legal_compliance.compute is called with any query, response, documents and mode
InitLegal ==
    /\ VerifyIdle
    /\ PenaltyIdle
    /\ EvalIdle
    /\ lpc = "start"
    /\ lQuery \in QueryPool
    /\ lResponse \in ResponsePool
    /\ lDocs \in SeqsUpTo(LegalDocPool, MaxLegalDocs)
    /\ lMode \in ModePool
    /\ lMetrics = <<>>
    /\ XIdle

NextLegal ==
    \/ Section8Check /\ UNCHANGED <<vvars, pvars, evars, xvars>>
    \/ CitationIntegrityCheck /\ UNCHANGED <<vvars, pvars, evars, xvars>>

SpecLegal == InitLegal /\ [][NextLegal]_vars

\* detect_hallucinations is called with any claims and one match for each
InitDetect ==
    /\ VerifyIdle /\ PenaltyIdle /\ EvalIdle /\ LegalIdle
    /\ dpc = "start"
    /\ \E cms \in SeqsUpTo(ClaimAndMatch, MaxDetect) :
          /\ dClaims = [i \in 1..Len(cms) |-> [claim_type |-> cms[i].claim_type]]
          /\ dMatches = [i \in 1..Len(cms) |->
                            [matched |-> cms[i].matched, conf |-> cms[i].conf]]
    /\ dFindings = <<>>
    /\ MatchIdle /\ WireIdle /\ ScoreIdle /\ TextIdle /\ JurisIdle /\ ClientIdle /\ ChatIdle /\ GroundIdle

NextDetect == ApplyDetect /\ UNCHANGED <<vvars, pvars, evars, lvars, mvars, wvars, svars, tvars, jvars, cvars, hvars, gvars>>

SpecDetect == InitDetect /\ [][NextDetect]_vars

\* match_single_claim is called with a claim of five characters or more and
\* any ordered source_contents
InitMatch ==
    /\ VerifyIdle /\ PenaltyIdle /\ EvalIdle /\ LegalIdle
    /\ DetectIdle /\ WireIdle /\ ScoreIdle /\ TextIdle /\ JurisIdle /\ ClientIdle /\ ChatIdle /\ GroundIdle
    /\ mpc = "loop"
    /\ mOutcomes \in SeqsUpTo(DocOutcomes, MaxMatchDocs)
    /\ mi = 1
    /\ mBest = NoMatch

NextMatch ==
    \/ MatchExact /\ UNCHANGED <<vvars, pvars, evars, lvars, dvars, wvars, svars, tvars, jvars, cvars, hvars, gvars>>
    \/ MatchSemantic /\ UNCHANGED <<vvars, pvars, evars, lvars, dvars, wvars, svars, tvars, jvars, cvars, hvars, gvars>>
    \/ MatchFuzzy /\ UNCHANGED <<vvars, pvars, evars, lvars, dvars, wvars, svars, tvars, jvars, cvars, hvars, gvars>>
    \/ MatchReturn /\ UNCHANGED <<vvars, pvars, evars, lvars, dvars, wvars, svars, tvars, jvars, cvars, hvars, gvars>>

SpecMatch == InitMatch /\ [][NextMatch]_vars

\* a process with no embedding backend calls verify_response and
\* compute_all_metrics on some inputs, then again on the same inputs
InitWire ==
    /\ VerifyIdle /\ PenaltyIdle /\ EvalIdle /\ LegalIdle
    /\ DetectIdle /\ MatchIdle /\ ScoreIdle /\ TextIdle /\ JurisIdle /\ ClientIdle /\ ChatIdle /\ GroundIdle
    /\ wpc = "idle"
    /\ wIn \in WireInputs
    /\ wMetaArg \in {"none", "map"}
    /\ wSupplied \in IF wMetaArg = "none" THEN {EmptyMeta} ELSE SuppliedMaps(wIn)
    /\ wMeta = wSupplied
    /\ wRan = {} /\ wOut = NoOut /\ wResult = NoCounts
    /\ wCall = 1 /\ wFirst = NoFirst
    /\ wEmb = "None" /\ wVerifyOut = NoCounts /\ wSameMap = FALSE

NextWire ==
    \/ WireVerify /\ UNCHANGED <<vvars, pvars, evars, lvars, dvars, mvars, svars, tvars, jvars, cvars, hvars, gvars>>
    \/ StartWire /\ UNCHANGED <<vvars, pvars, evars, lvars, dvars, mvars, svars, tvars, jvars, cvars, hvars, gvars>>
    \/ RunNext /\ UNCHANGED <<vvars, pvars, evars, lvars, dvars, mvars, svars, tvars, jvars, cvars, hvars, gvars>>
    \/ FinishWire /\ UNCHANGED <<vvars, pvars, evars, lvars, dvars, mvars, svars, tvars, jvars, cvars, hvars, gvars>>
    \/ SecondRound /\ UNCHANGED <<vvars, pvars, evars, lvars, dvars, mvars, svars, tvars, jvars, cvars, hvars, gvars>>

SpecWire == InitWire /\ [][NextWire]_vars

\* the nine computers called one after another in any order on one map
NextSchedule ==
    \/ StartWire /\ UNCHANGED <<vvars, pvars, evars, lvars, dvars, mvars, svars, tvars, jvars, cvars, hvars, gvars>>
    \/ RunAny /\ UNCHANGED <<vvars, pvars, evars, lvars, dvars, mvars, svars, tvars, jvars, cvars, hvars, gvars>>
    \/ FinishWire /\ UNCHANGED <<vvars, pvars, evars, lvars, dvars, mvars, svars, tvars, jvars, cvars, hvars, gvars>>

SpecSchedule == InitWire /\ [][NextSchedule]_vars

\* the scoring is applied to any counts, findings and mode
InitScore ==
    /\ VerifyIdle /\ PenaltyIdle /\ EvalIdle /\ LegalIdle
    /\ DetectIdle /\ MatchIdle /\ WireIdle /\ TextIdle /\ JurisIdle /\ ClientIdle /\ ChatIdle /\ GroundIdle
    /\ spc = "start"
    /\ sTotal \in 1..MaxTotal
    /\ sVerified \in 0..sTotal
    /\ sStrict \in BOOLEAN
    /\ sFindings \in SeqsUpTo(SeverityLevels, MaxScoreFindings)
    /\ sBefore = 0 /\ sAfter = 0

NextScore == ApplyScore /\ UNCHANGED <<vvars, pvars, evars, lvars, dvars, mvars, wvars, tvars, jvars, cvars, hvars, gvars>>

SpecScore == InitScore /\ [][NextScore]_vars

\* verify_response on a response of up to MaxTextSentences sentences
InitExtract ==
    /\ VerifyIdle /\ PenaltyIdle /\ EvalIdle /\ LegalIdle
    /\ DetectIdle /\ MatchIdle /\ WireIdle /\ ScoreIdle /\ JurisIdle /\ ClientIdle /\ ChatIdle /\ GroundIdle
    /\ tpc = "start"
    /\ tSentences \in SeqsUpTo(SentencePool, MaxTextSentences)
    /\ tClaims = <<>> /\ tMatches = <<>> /\ tFindings = <<>>

NextExtract ==
    \/ ExtractStep /\ UNCHANGED <<vvars, pvars, evars, lvars, dvars, mvars, wvars, svars, jvars, cvars, hvars, gvars>>
    \/ MatchStep /\ UNCHANGED <<vvars, pvars, evars, lvars, dvars, mvars, wvars, svars, jvars, cvars, hvars, gvars>>
    \/ DetectStep /\ UNCHANGED <<vvars, pvars, evars, lvars, dvars, mvars, wvars, svars, jvars, cvars, hvars, gvars>>

SpecExtract == InitExtract /\ [][NextExtract]_vars

\* a caller asks for a jurisdiction, known or not
InitJurisdiction ==
    /\ VerifyIdle /\ PenaltyIdle /\ EvalIdle /\ LegalIdle
    /\ DetectIdle /\ MatchIdle /\ WireIdle /\ ScoreIdle /\ TextIdle /\ ClientIdle /\ ChatIdle /\ GroundIdle
    /\ jpc = "start"
    /\ jQuery \in QueryPool
    /\ jResponse \in ResponsePool
    /\ jRequested \in ModePool
    /\ jVia = "none" /\ jMetrics = <<>>

NextJurisdiction ==
    \/ ComputeWithMode /\ UNCHANGED <<vvars, pvars, evars, lvars, dvars, mvars, wvars, svars, tvars, cvars, hvars, gvars>>
    \/ EvaluateWithMode /\ UNCHANGED <<vvars, pvars, evars, lvars, dvars, mvars, wvars, svars, tvars, cvars, hvars, gvars>>

SpecJurisdiction == InitJurisdiction /\ [][NextJurisdiction]_vars

\* one evaluate call, through the SDK client or straight into the engine
InitClient ==
    /\ VerifyIdle /\ PenaltyIdle /\ EvalIdle /\ LegalIdle
    /\ DetectIdle /\ MatchIdle /\ WireIdle /\ ScoreIdle /\ TextIdle /\ JurisIdle /\ ChatIdle /\ GroundIdle
    /\ cpc = "start"
    /\ cQuery \in ClientTexts /\ cResponse \in ClientTexts /\ cServiceId \in ClientTexts
    /\ cDocs \in 0..MaxClientDocs
    /\ cMaxRetries \in 0..MaxRetries
    /\ cAttempt = 0 /\ cPosts = 0 /\ cReply = NoReply /\ cWaits = <<>>
    /\ cLastError = "None" /\ cOutcome = "none" /\ cVia = "none" /\ cScored = 0

NextClient ==
    \/ ClientValidate /\ UNCHANGED <<vvars, pvars, evars, lvars, dvars, mvars, wvars, svars, tvars, jvars, hvars, gvars>>
    \/ ClientAttempt /\ UNCHANGED <<vvars, pvars, evars, lvars, dvars, mvars, wvars, svars, tvars, jvars, hvars, gvars>>
    \/ ClientExhausted /\ UNCHANGED <<vvars, pvars, evars, lvars, dvars, mvars, wvars, svars, tvars, jvars, hvars, gvars>>
    \/ EngineEvaluate /\ UNCHANGED <<vvars, pvars, evars, lvars, dvars, mvars, wvars, svars, tvars, jvars, hvars, gvars>>

SpecClient == InitClient /\ [][NextClient]_vars

\* one /chat request
InitChat ==
    /\ VerifyIdle /\ PenaltyIdle /\ EvalIdle /\ LegalIdle
    /\ DetectIdle /\ MatchIdle /\ WireIdle /\ ScoreIdle /\ TextIdle /\ JurisIdle /\ ClientIdle /\ GroundIdle
    /\ hpc = "start"
    /\ hBody \in ChatBodies
    /\ hReplyStatus \in EnduranceStatuses
    /\ hRequest = ParseChatRequest(NoBody) /\ hResult = NoChain
    /\ hPayload = <<>> /\ hPosted = FALSE /\ hEvaluation = "none"

NextChat ==
    \/ ChatAnswer /\ UNCHANGED <<vvars, pvars, evars, lvars, dvars, mvars, wvars, svars, tvars, jvars, cvars, gvars>>
    \/ SendToEndurance /\ UNCHANGED <<vvars, pvars, evars, lvars, dvars, mvars, wvars, svars, tvars, jvars, cvars, gvars>>

SpecChat == InitChat /\ [][NextChat]_vars

\* calculate_groundedness on a response of up to MaxGroundSentences pieces
InitGround ==
    /\ VerifyIdle /\ PenaltyIdle /\ EvalIdle /\ LegalIdle
    /\ DetectIdle /\ MatchIdle /\ WireIdle /\ ScoreIdle /\ TextIdle /\ JurisIdle /\ ClientIdle /\ ChatIdle
    /\ gpc = "start"
    /\ gSentences \in SeqsUpTo(GroundPieces, MaxGroundSentences)
    /\ gDocs \in 0..MaxGroundDocs
    /\ gResult = NoGroundedness

NextGround ==
    CalculateGroundedness /\ UNCHANGED <<vvars, pvars, evars, lvars, dvars, mvars, wvars, svars, tvars, jvars, cvars, hvars>>

SpecGround == InitGround /\ [][NextGround]_vars

----------------------------------------------------------------------------
(* Properties *)

Returned == vpc = "done"

UncappedScore(r) ==
    RoundDiv(r.verified_claims * 10 * r.hallucination_penalty, r.total_claims)

IsNeutral(r) ==
    /\ r.verification_score = NeutralScore
    /\ r.total_claims = 0 /\ r.verified_claims = 0 /\ r.hallucinated_claims = 0
    /\ r.hallucination_penalty = 1000

\* C1 as stated: whenever verify returns, strict or not, the score is
\* round(100 * verified / total * penaltyMultiplier) if a claim was extracted,
\* and the neutral report (50, zero counts, multiplier 1.0) otherwise.
C1_ScoreFormulaAlways ==
    Returned =>
        IF report.total_claims > 0
        THEN report.verification_score = UncappedScore(report)
        ELSE IsNeutral(report)

\* C1 amended: the score is round(100 * verified / total * multiplier, 2),
\* except that a strict call with at least one flagged claim returns at most
\* 30; with no claim extracted the report is the neutral one.
C1_ScoreFormula ==
    Returned =>
        IF Len(claims) > 0
        THEN /\ report.total_claims = Len(claims)
             /\ report.verification_score =
                   IF strict /\ report.hallucinated_claims > 0
                   THEN Min(UncappedScore(report), 3000)
                   ELSE UncappedScore(report)
        ELSE IsNeutral(report)

\* a strict call whose uncapped score is above 30 and that flagged a claim
C1_Witness ==
    /\ Returned /\ strict
    /\ report.total_claims > 0 /\ report.hallucinated_claims > 0
    /\ UncappedScore(report) > 3000
    /\ report.verification_score = 3000

\* C2 as stated: a claim whose text is a case-insensitive substring of a
\* supplied document's content is matched EXACT with confidence 1.0.
C2_SubstringIsExact ==
    \A i \in 1..Len(matches) :
        (\E d \in 1..Len(docs) : Contains(Lower(docs[d].content), Lower(claims[i].text)))
            => /\ matches[i].matched
               /\ matches[i].mtype = "EXACT"
               /\ matches[i].conf = 1000

\* C3 as stated: once the backend was found unavailable or an embed request
\* raised in this call, no later step of the call issues an embed request.
C3_NoEmbedAfterFailure ==
    [][(vpc = "match" /\ degraded) => embedRequests' = 0]_vars

\* C4: a verify call never ends in an error and always runs to its return,
\* whatever the backend does.
C4_VerifyReturns ==
    /\ [](vpc # "error")
    /\ (vpc \in {"match", "detect"}) ~> Returned

\* a call that met a failing backend and returned a report on its claims
C4_Witness ==
    /\ Returned /\ degraded
    /\ report.total_claims > 0
    /\ embAvailable = "False"

CountOf(sevs, x) == Cardinality({i \in 1..Len(sevs) : sevs[i] = x})

\* C10: with h HIGH, m MEDIUM and l LOW findings the multiplier is
\* 1.0 - min(0.5, 0.15 h + 0.08 m + 0.03 l); 1.0 for no finding, never below 0.5.
C10_PenaltyFormula ==
    ppc = "done" =>
        /\ pPenalty = 1000 - Min(500, 150 * CountOf(pFindings, "HIGH")
                                      + 80 * CountOf(pFindings, "MEDIUM")
                                      + 30 * CountOf(pFindings, "LOW"))
        /\ (pFindings = <<>> => pPenalty = 1000)
        /\ pPenalty >= 500

\* a list whose subtraction exceeds the cap
C10_Witness ==
    /\ ppc = "done"
    /\ PenaltySum(pFindings) > 500
    /\ pPenalty = 500

InRange(x) == 0 <= x /\ x <= 10000

\* C5 as stated: every normalised metric score, every dimension score and the
\* overall score of an evaluation lies in [0, 100], whatever the weights.
C5_ScoresInRange ==
    epc = "done" =>
        /\ \A i \in 1..Len(eDims) :
              /\ \A j \in 1..Len(eDims[i].metrics) : InRange(eDims[i].metrics[j])
              /\ 0 <= DimScore(eDims[i]) /\ DimScore(eDims[i]) <= 10000 * ScoreUnits
        /\ InRange(eOverall)

\* the dimensions that were evaluated and are named by the weights passed
Weighted(wa) == {i \in 1..Len(eDims) : eDims[i].name \in DOMAIN EffectiveWeights(wa)}
SameDimsWeight(wa) ==
    SumOver(Weighted(wa), LAMBDA i : EffectiveWeights(wa)[eDims[i].name], 0)
SameDimsSum(wa) ==
    SumOver(Weighted(wa), LAMBDA i : DimScore(eDims[i]) * EffectiveWeights(wa)[eDims[i].name], 0)

\* C8 as stated: the overall score is the weighted mean of the dimension
\* scores, sum(score * weight) / sum(weight) rounded to 2 decimals, both sums
\* over the same dimensions, for every weight map.
C8_WeightedMean ==
    (epc = "done" /\ SameDimsWeight(eWeights) # 0) =>
        eOverall =
            IF SameDimsWeight(eWeights) > 0
            THEN RoundDivZ(SameDimsSum(eWeights), SameDimsWeight(eWeights) * ScoreUnits)
            ELSE RoundDivZ(0 - SameDimsSum(eWeights),
                           (0 - SameDimsWeight(eWeights)) * ScoreUnits)

Degenerate(wa) == wa.given /\ \A k \in DOMAIN wa.w : wa.w[k] = 0

\* C9: with an all-zero or an empty weights map the overall score is 0,
\* whatever the dimension scores are (the defaults are not put in its place).
C9_DegenerateWeights ==
    (epc = "done" /\ Degenerate(eWeights)) => eOverall = 0

\* an evaluation with an empty weights map whose dimensions all scored above 0
C9_Witness ==
    /\ epc = "done"
    /\ eWeights.given /\ DOMAIN eWeights.w = {}
    /\ Len(eDims) = Len(DimensionOrder)
    /\ \A i \in 1..Len(eDims) : DimScore(eDims[i]) > 0
    /\ eOverall = 0

HasMetric(n) == \E i \in 1..Len(lMetrics) : lMetrics[i].name = n
MetricNamed(n) == lMetrics[CHOOSE i \in 1..Len(lMetrics) : lMetrics[i].name = n]

\* the response holds refusal language
Refusing(response) == \E ws \in refusal_indicators : Search(Lower(response), ws)

\* a word without the full stop or comma that ends it
Bare(w) == IF w # <<>> /\ w[Len(w)] \in {".", ","} THEN SubSeq(w, 1, Len(w) - 1) ELSE w

\* the response holds numeric or currency content: a digit, a currency sign
\* or a currency word
DataBearing(response) ==
    \/ \E i \in 1..Len(response) : response[i] \in NumberChars
    \/ \E w \in Words(Lower(response)) : Bare(w) \in amount_words

\* C6 as stated: under RTI, for a query with an exempt-topic keyword, a
\* non-refusing data-bearing response scores section_8_compliance 0 with the
\* violation in the explanation, a refusing response 0.95, any other response
\* 0.5; a query without such a keyword scores 1.0.
C6_Section8Scores ==
    (lpc = "done" /\ lMode = "RTI") =>
        /\ HasMetric("section_8_compliance")
        /\ LET m == MetricNamed("section_8_compliance")
           IN  IF TriggeredSections(lQuery) = <<>> THEN m.raw_value = 100
               ELSE IF Refusing(lResponse) THEN m.raw_value = 95
               ELSE IF DataBearing(lResponse)
                    THEN m.raw_value = 0 /\ m.explanation.text = "VIOLATION"
                    ELSE m.raw_value = 50

\* the names a response cites as [Source: X] or (Source: X)
SourceTagNames(response) ==
    LET cited == FindSourceCitations(response, 1, <<"[","s","o","u","r","c","e",":">>, "]")
                   \o FindSourceCitations(response, 1, <<"(","s","o","u","r","c","e",":">>, ")")
    IN  {cited[i] : i \in 1..Len(cited)}

\* X is the source name of a supplied document: equal to it without regard to
\* case, with or without the file extension, "_" and " " taken as the same
NamesSuppliedDocument(cited, rag_documents) ==
    LET cited_clean == Replace(Replace(Replace(cited, ExtPdf, <<>>), ExtXlsx, <<>>),
                               <<"_">>, <<" ">>)
    IN  \E valid \in ValidSources(rag_documents) : cited = valid \/ cited_clean = valid

\* C7 as stated: a response with an inline citation whose name is not the
\* source name of any supplied document scores citation_integrity 0 and the
\* name is in the explanation, whatever else the response holds and whichever
\* other documents are supplied.
C7_FakeCitationIsZero ==
    lpc = "done" =>
        \A x \in SourceTagNames(lResponse) :
            ~NamesSuppliedDocument(x, lDocs) =>
                LET m == MetricNamed("citation_integrity")
                IN  /\ m.raw_value = 0
                    /\ \E i \in 1..Len(m.explanation.names) : m.explanation.names[i] = x

Flagged(m) == ~m.matched \/ m.conf < 500

\* C11: the findings hold exactly one finding for each claim whose match is
\* unmatched or has confidence below 0.5, in claim order, and none for a
\* claim matched with confidence 0.5 or more.
C11_FindingsAreTheFlagged ==
    dpc = "done" =>
        /\ \A n \in 1..Len(dMatches) :
              Cardinality({k \in 1..Len(dFindings) : dFindings[k].claim = n})
                  = IF Flagged(dMatches[n]) THEN 1 ELSE 0
        /\ \A k \in 1..Len(dFindings) : dFindings[k].claim \in 1..Len(dMatches)
        /\ \A j, k \in 1..Len(dFindings) :
              j < k => dFindings[j].claim < dFindings[k].claim

\* two claims, the first matched below 0.5 and flagged, the second matched
\* at 0.5 and not flagged
C11_Witness ==
    /\ dpc = "done"
    /\ Len(dMatches) = 2
    /\ dMatches[1].matched /\ dMatches[1].conf = 400
    /\ dMatches[2].matched /\ dMatches[2].conf = 500
    /\ Len(dFindings) = 1 /\ dFindings[1].claim = 1

\* the severity the specification gives a flagged claim
StatedSeverity(claim_type, conf) ==
    CASE claim_type \in {"NUMERIC", "CITATION"} -> "HIGH"
      [] claim_type = "ENTITY" -> IF conf < 200 THEN "HIGH" ELSE "MEDIUM"
      [] claim_type = "TEMPORAL" -> "MEDIUM"
      [] OTHER -> IF conf <= 300 THEN "MEDIUM" ELSE "LOW"

\* C12 as stated: a finding's severity is HIGH for NUMERIC and CITATION
\* claims at any confidence, HIGH below 0.2 and else MEDIUM for ENTITY,
\* MEDIUM for TEMPORAL, and LOW for ASSERTION unless the confidence is at
\* most 0.3, when it is MEDIUM.
C12_SeverityTable ==
    dpc = "done" =>
        \A k \in 1..Len(dFindings) :
            dFindings[k].severity =
                StatedSeverity(dClaims[dFindings[k].claim].claim_type,
                               dMatches[dFindings[k].claim].conf)

\* strategy strength: EXACT > SEMANTIC > FUZZY > PARTIAL
Strength(t) ==
    IF t = "EXACT" THEN 4 ELSE IF t = "SEMANTIC" THEN 3
    ELSE IF t = "FUZZY" THEN 2 ELSE IF t = "PARTIAL" THEN 1 ELSE 0

\* candidate i is at least as good as candidate j: higher confidence, or equal
\* confidence and a strategy at least as strong
AtLeastAsGood(a, b) ==
    \/ a.conf > b.conf
    \/ a.conf = b.conf /\ Strength(a.mtype) >= Strength(b.mtype)

MatchedDocs == {i \in 1..Len(mOutcomes) : StrategyResult(mOutcomes[i]).matched}

\* C13: the match returned for a claim is the candidate of highest confidence
\* among the per-document strategy results, the stronger strategy winning
\* among candidates of equal confidence whatever the document order; with no
\* matching document it is matched = false, NONE, 0.
C13_BestCandidateWins ==
    mpc = "done" =>
        IF MatchedDocs = {} THEN mBest = NoMatch
        ELSE /\ mBest.matched
             /\ \E i \in MatchedDocs :
                   /\ mBest.conf = StrategyResult(mOutcomes[i]).conf
                   /\ mBest.mtype = StrategyResult(mOutcomes[i]).mtype
             /\ \A j \in MatchedDocs :
                   AtLeastAsGood([conf |-> mBest.conf, mtype |-> mBest.mtype],
                                 StrategyResult(mOutcomes[j]))

WireReturned == wpc = "done"

\* accuracy as calculate_accuracy gives it from the counts c
AccuracyFrom(c, estimate) ==
    IF c.total > 0 THEN (c.verified * 100) \div c.total ELSE estimate

\* C14: the counts of the EvaluationResult are those of the verification
\* report for the response and documents, and response_quality's accuracy is
\* computed from those counts.
C14_CountsAreTheVerificationReports ==
    WireReturned =>
        /\ wResult = wIn.vr
        /\ wOut["response_quality"] = AccuracyFrom(wIn.vr, wIn.estimate)

\* the raw values the computers give when run in the given order on meta
RECURSIVE RunInOrder(_, _, _)
RunInOrder(order, meta, in) ==
    IF order = <<>> THEN NoOut
    ELSE LET c == Computer(Head(order), meta, in)
         IN  [RunInOrder(Tail(order), c.meta, in) EXCEPT ![Head(order)] = c.out]

\* C15: whatever order the nine computers are run in on the same metadata
\* map, each gives what it gives in the order of compute_all_metrics.
C15_ScheduleIndependent ==
    WireReturned => wOut = RunInOrder(WireOrder, wSupplied, wIn)

\* C16: after the call the caller's metadata map holds the keys and values it
\* held before the call.
C16_MetadataUnchanged ==
    (wCall = 1 /\ wMetaArg = "map" /\ wpc \in {"done", "raised"}) => wMeta = wSupplied

\* C17: no error of a dimension computer propagates to the caller of evaluate.
C17_NoErrorPropagates == wpc # "raised"

\* C18: with no embedding backend the second of two calls on identical inputs
\* gives what the first gave, for evaluate (also when it is handed the map
\* object the first call was given) and for verify.
C18_Deterministic ==
    wCall = 2 =>
        /\ WireReturned =>
              /\ ~wFirst.raised
              /\ wOut = wFirst.out
              /\ wResult = wFirst.result
        /\ wpc = "raised" => (wFirst.raised /\ wOut = wFirst.out)
        /\ (wVerifyOut # NoCounts /\ wFirst.verify # NoCounts) => wVerifyOut = wFirst.verify

\* the second call has returned after being handed the map the first call
\* wrote its counts and details into, verify having run in both rounds
C18_Witness ==
    /\ wCall = 2 /\ WireReturned /\ wSameMap
    /\ wMeta # wSupplied
    /\ wSupplied["total_claims"] # wResult.total
    /\ wFirst.verify # NoCounts /\ wVerifyOut # NoCounts

Scored == spc = "done"

StrictCut ==
    /\ sStrict /\ Len(sFindings) > 0
    /\ sVerified * 10 * calculate_hallucination_penalty(sFindings) > StrictCap * sTotal

\* adding 0.15 keeps the total subtraction within the cap of 0.5
RoomUnderCap == PenaltySum(sFindings) + PenaltyOf("HIGH") <= PenaltyCap

C20_EmptyEvidence ==
    docs = <<>> =>
        /\ vpc # "error"
        /\ Returned =>
              /\ report.total_claims = Len(claims)
              /\ report.verified_claims = 0
              /\ report.hallucinated_claims = Len(claims)
              /\ Len(report.hallucinations) = Len(claims)
              /\ \A i \in 1..Len(claims) : report.hallucinations[i].claim = i
              /\ Len(claims) > 0 => report.verification_score = 0

C20_Witness ==
    /\ Returned /\ docs = <<>> /\ Len(claims) = MaxClaims
    /\ report.verified_claims = 0
    /\ Len(report.hallucinations) = MaxClaims
    /\ report.verification_score = 0

\* C26: for a pair that is not an exact match the fuzzy strategy runs exactly
\* when the semantic strategy returned no result; when fuzzy runs without
\* rapidfuzz the word-overlap strategy answers in its place, and no error
\* comes of it.
C26_FuzzyOnlyWithoutSemantic ==
    /\ consulted.fuzzy <=> consulted.semantic = "none"
    /\ consulted.overlap <=> (consulted.fuzzy /\ ~rapidfuzz)
    /\ consulted.fuzzy => vpc # "error"

\* both sides happen in one call: a semantic result without fuzzy is behind
\* (the backend answered for an earlier pair), fuzzy with word overlap is now
C26_Witness ==
    /\ consulted = Consulted("none", TRUE, TRUE)
    /\ embModel = "model" /\ di > 1

\* C28: every extracted claim is counted once, as verified or as
\* hallucinated, and the hallucinations list has hallucinated_claims entries.
C28_CountsPartition ==
    Returned =>
        /\ report.verified_claims + report.hallucinated_claims = report.total_claims
        /\ Len(report.hallucinations) = report.hallucinated_claims

C28_Witness ==
    /\ Returned /\ report.total_claims = MaxClaims
    /\ report.verified_claims = 1 /\ report.hallucinated_claims = 1

\* a strategy result is well formed: matched with confidence >= 0.5, or
\* unmatched with type NONE
WellFormed(r) == IF r.matched THEN r.conf >= 500 ELSE r.mtype = "NONE"

\* every similarity, every fuzzy score and every word overlap
StrategiesWellFormed ==
    /\ \A sim \in 0..100 : WellFormed(SemanticCurve(sim))
    /\ \A score \in 0..100 : WellFormed(FuzzyMatch(NoneResult, TRUE, score))
    /\ \A c \in ClaimPool, d \in DocPool : WellFormed(Overlap[c, d])

\* C29: every result of the exact, semantic, fuzzy and word-overlap
\* strategies is matched with confidence >= 0.5 or unmatched with type NONE;
\* so in a report the claims of status VERIFIED number verified_claims and
\* the flagged claims are the unmatched ones.
C29_MatchedMeansConfident ==
    /\ StrategiesWellFormed
    /\ WellFormed(best)
    /\ \A i \in 1..Len(matches) : WellFormed(matches[i])
    /\ Returned =>
          /\ Cardinality({i \in 1..Len(report.claims) : report.claims[i].status = "VERIFIED"})
                = report.verified_claims
          /\ {report.hallucinations[k].claim : k \in 1..Len(report.hallucinations)}
                = {i \in 1..Len(matches) : ~matches[i].matched}

\* a report with a verified claim matched by the semantic strategy at its
\* weakest matching band and a flagged one
C29_Witness ==
    /\ Returned /\ report.verified_claims = 1 /\ report.hallucinated_claims = 1
    /\ \E i \in 1..Len(matches) : matches[i].matched /\ matches[i].conf < 700

\* C30: the embedding state only moves forward: after a failed
\* initialisation the flag stays False, the model stays None and no lookup
\* tries again; after a successful one the model and the flag stay; a step
\* whose embed request raises changes neither.
C30_EmbeddingStateForward ==
    [][ /\ embAvailable = "False" =>
            /\ embAvailable' = "False" /\ embModel' = "None"
            /\ \A env \in InitOutcomes :
                  LET g == GetEmbeddingsModel(embAvailable, embModel, env)
                  IN  g.ret = "None" /\ ~g.tried
        /\ embModel = "model" =>
            /\ embModel' = "model" /\ embAvailable' = "True"
            /\ \A env \in InitOutcomes :
                  LET g == GetEmbeddingsModel(embAvailable, embModel, env)
                  IN  g.ret = "model" /\ ~g.tried
        /\ embAvailable # "None" => embAvailable' = embAvailable
      ]_vars

\* a later call starts with the flag False left by an earlier call
C30_Witness ==
    /\ vpc = "match" /\ embAvailable = "False" /\ ~degraded /\ di = 1 /\ ci = 1

\* C21: the claims list is in text order (start offsets never decrease along
\* it), there is one match per claim, and the findings follow the order of
\* their claims.
C21_TextOrder ==
    tpc = "done" =>
        /\ \A i, j \in 1..Len(tClaims) : i < j => tClaims[i].start_pos <= tClaims[j].start_pos
        /\ Len(tMatches) = Len(tClaims)
        /\ \A h, k \in 1..Len(tFindings) : h < k => tFindings[h].claim < tFindings[k].claim

\* C22: the jurisdiction asked of evaluate selects the rule table, any value
\* other than the three known ones standing for RTI: the legal metrics are
\* those of the jurisdiction asked for, or of RTI when it is unknown.
C22_JurisdictionSelects ==
    (jpc = "done" /\ jVia = "evaluate") =>
        jMetrics = ModeMetrics(jQuery, jResponse,
                               IF jRequested \in COMPLIANCE_MODES THEN jRequested ELSE "RTI")

\* C23: an evaluate call whose query or response is empty or missing ends in a validation
\* failure before any request is posted and before any dimension is scored; a call with an
\* empty documents list and a query, response and service id present is not rejected by
\* the validation.
C23_EmptyRejected ==
    /\ (cpc \notin {"off", "start"} /\ (Falsy(cQuery) \/ Falsy(cResponse))) =>
           (cpc = "raised" /\ cOutcome = "ValidationError" /\ cPosts = 0 /\ cScored = 0)
    /\ (cpc \notin {"off", "start"} /\ cDocs = 0 /\ cPosts = 0
            /\ ~Falsy(cQuery) /\ ~Falsy(cResponse) /\ ~Falsy(cServiceId)) =>
           cOutcome \notin {"ValidationError", "AttributeError"}

\* C27: an evaluate call of the client makes at most max_retries POSTs; a 2xx reply that
\* carries a result returns it at once; a 429, 401 or 400 reply raises the matching error on that attempt; a
\* timeout or another failure is retried after min(2^attempt, 10) seconds, and the failure
\* of the last attempt is raised.
C27_RetryDiscipline ==
    cVia = "client" =>
        /\ cPosts <= cMaxRetries
        /\ (cReply.kind = "http" /\ cReply.status \in 200..299 /\ cReply.body = "result") =>
               (cpc = "returned" /\ cOutcome = "result")
        /\ (cReply.kind = "http" /\ cReply.status \in {429, 401, 400}) =>
               /\ cpc = "raised"
               /\ cOutcome = (IF cReply.status = 429 THEN "RateLimitError"
                              ELSE IF cReply.status = 401 THEN "AuthenticationError"
                              ELSE "ValidationError")
        /\ (cReply.kind \in {"timeout", "error"} \/ (cReply.kind = "http" /\ cReply.status = 500)) =>
               IF cPosts = cMaxRetries
               THEN cpc = "raised"
                    /\ cOutcome = (IF cReply.kind = "timeout" THEN "TimeoutError" ELSE "EnduranceError")
               ELSE cpc = "loop" /\ Len(cWaits) = cPosts
                    /\ cWaits[cPosts] = Min(Pow2(cPosts - 1), 10)

\* C24: when a /chat request carries custom_weights and include_evaluation is on, the payload
\* posted to /v1/evaluate has a custom_weights field equal to the weights of the request.
C24_WeightsPassThrough ==
    (hpc = "done" /\ hBody.custom_weights.given /\ hBody.include_evaluation) =>
        /\ hPosted
        /\ "custom_weights" \in DOMAIN hPayload
        /\ hPayload["custom_weights"] = hBody.custom_weights

\* C25: with documents given, the supported sentences are exactly the counted sentences of
\* which at least 30% of the key words occur in the documents, a sentence at exactly 30%
\* included, and groundedness is supported / counted.
C25_ThirtyPercentSupports ==
    (gpc = "done" /\ gDocs > 0) =>
        LET counted == CountedSentences(gSentences) IN
        /\ gResult.total = Len(counted)
        /\ gResult.supported =
               Cardinality({i \in 1..Len(counted) : 10 * counted[i].matches >= 3 * counted[i].key})
        /\ gResult.groundedness =
               (IF gResult.total > 0 THEN (100 * gResult.supported) \div gResult.total ELSE 0)

============================================================================
